---------------------------- MODULE Spec2Model ----------------------------
(***************************************************************************)
(* TranscriptTurbo: the local result cache (IndexedDB history store).      *)
(*                                                                         *)
(* The object store 'history' (keyPath fileHash, index processedAt) is the *)
(* set `store` of records.  Every tab runs the exported operations of      *)
(* utils/historyStorage; an operation that awaits between two store        *)
(* requests is split at its suspension points.                             *)
(***************************************************************************)
EXTENDS Integers, Sequences, FiniteSets, TLC

(***************************************************************************)
(* Bounds of the model.                                                    *)
(***************************************************************************)
\* number of distinct file fingerprints (fileHash values 1..NumHashes)
NumHashes == 3
\* last value of the clock read by Date.now()
MaxTime == 3
\* capacity passed to enforceStorageLimit (50 in the application)
MaxItems == 2
\* longest summaries array an append may produce
MaxSummaries == 2

Hashes == 1..NumHashes
Times == 0..MaxTime
Tabs == {"tabA", "tabB"}

(***************************************************************************)
(* Values.  A SummarizeResponse is an opaque payload that carries its      *)
(* llm_model; the legacy field `summary` may also be null or undefined.    *)
(***************************************************************************)
Summaries == {"S1", "S2"}
LegacySummaryValues == {"undefined", "null"} \cup Summaries

llm_model(summary) ==
    IF summary = "S1" THEN "gpt-a" ELSE "gpt-b"

\* JavaScript truthiness of a number (processedAt || Date.now())
Truthy(n) == n # 0

UndefinedSummaries == [kind |-> "undefined", items |-> <<>>]
NullSummaries == [kind |-> "null", items |-> <<>>]
ArrayOf(items) == [kind |-> "array", items |-> items]

SummaryVersion(summary, generatedAt, version) ==
    [summary |-> summary, generatedAt |-> generatedAt, version |-> version]

HistoryMetadata(transcriptionModel, llmModel) ==
    [defined |-> TRUE, transcriptionModel |-> transcriptionModel, llmModel |-> llmModel]

\* a stored record: the fields of HistoryEntry, with the legacy field
\* `summary` and the current field `summaries` both representable
HistoryEntry(fileHash, fileName, processedAt, summary, summaries) ==
    [fileHash |-> fileHash,
     fileName |-> fileName,
     fileSize |-> 10 * fileHash,
     duration |-> 60 + fileHash,
     processedAt |-> processedAt,
     transcript |-> "T1",
     summary |-> summary,
     summaries |-> summaries,
     metadata |-> HistoryMetadata("stt-1",
                    IF summary \in Summaries THEN llm_model(summary) ELSE "null")]

(***************************************************************************)
(* normalizeHistoryEntry (entry non-null; the null case throws and is      *)
(* decided by the callers before the call).                                *)
(***************************************************************************)
\* mutant: the legacy field survives normalization
normalizeHistoryEntry_keepsLegacy(entry, dateNow) ==
    IF entry.summaries.kind # "undefined"
    THEN entry
    ELSE [entry EXCEPT !.summaries = ArrayOf(
            IF entry.summary \in Summaries
            THEN <<SummaryVersion(entry.summary,
                     IF Truthy(entry.processedAt) THEN entry.processedAt ELSE dateNow, 1)>>
            ELSE <<>>)]

\* mutant: the summaries are rebuilt from the legacy field whether or not
\* the entry has a summaries field
normalizeHistoryEntry_rewraps(entry, dateNow) ==
    [entry EXCEPT
        !.summaries = ArrayOf(
            IF entry.summary # "null" /\ entry.summary # "undefined"
            THEN <<SummaryVersion(entry.summary,
                     IF Truthy(entry.processedAt) THEN entry.processedAt ELSE dateNow, 1)>>
            ELSE <<>>),
        !.summary = "undefined"]

normalizeHistoryEntry(entry, dateNow) ==
    IF entry.summaries.kind # "undefined"
    THEN entry
    ELSE [entry EXCEPT
            !.summaries = ArrayOf(
                IF entry.summary # "null" /\ entry.summary # "undefined"
                THEN <<SummaryVersion(entry.summary,
                         IF Truthy(entry.processedAt) THEN entry.processedAt ELSE dateNow, 1)>>
                ELSE <<>>),
            !.summary = "undefined"]


(***************************************************************************)
(* State.                                                                  *)
(***************************************************************************)
VARIABLES
    store,      \* the records of object store 'history'
    now,        \* the value Date.now() returns
    rwTxn,      \* the tab whose readwrite transaction is between two requests
    pc,         \* per tab: where its operation in flight is suspended
    call,       \* per tab: the local variables of the operation in flight
    ret,        \* per tab: how its last operation settled
    lastSaved,  \* history: per key, the argument of the last saveHistoryEntry
                \* of the key, until the key is deleted
    appends,    \* history: per key, the addSummaryVersion calls resolved
                \* since that save
    normArg,    \* argument handed to normalizeHistoryEntry
    normRet,    \* what normalizeHistoryEntry returned for it
    dbVersion,  \* the version of database 'TranscriptTurboHistory' on disk
    upgrade,    \* the versionchange transaction of an indexedDB.open in progress
    handles,    \* per tab: the database handles it holds open
    txn,        \* per tab: the transaction of its operation, until it finishes
    cursorValues, \* the values a cursor of getAllHistory delivers
    enumerated, \* how getAllHistory settled for these values
    app,        \* the state of component App (its useState cells)
    fileChange, \* per run: where a call of handleFileChange is suspended
    submit,     \* the call of handleSubmit in flight and what it closed over
    decision    \* history: what became of the file selected last, a button
                \* of the reuse dialog or a failure of handleFileChange

\* the state of the database connection layer
openVars == <<dbVersion, upgrade, handles, txn>>

\* the state of one enumeration
enumVars == <<cursorValues, enumerated>>

\* the state of the page
uiVars == <<app, fileChange, submit, decision>>

vars == <<store, now, rwTxn, pc, call, ret, lastSaved, appends, normArg, normRet,
          dbVersion, upgrade, handles, txn, cursorValues, enumerated,
          app, fileChange, submit, decision>>

NoVersion == SummaryVersion("none", 0, 0)

NoCall ==
    [op |-> "none", fileHash |-> 0, summaryVersion |-> NoVersion, entry |-> <<>>,
     maxItems |-> 0, allEntries |-> <<>>, entriesToDelete |-> <<>>]

NoRet ==
    [op |-> "none", status |-> "none", error |-> "", entry |-> <<>>,
     entries |-> <<>>, count |-> 0]

Resolved(op, entry, entries, count) ==
    [op |-> op, status |-> "resolved", error |-> "", entry |-> entry,
     entries |-> entries, count |-> count]

Rejected(op, error) ==
    [op |-> op, status |-> "rejected", error |-> error, entry |-> <<>>,
     entries |-> <<>>, count |-> 0]

(***************************************************************************)
(* The page: the state of component App and its handlers in flight.  "null" *)
(* and <<>> stand for null, fingerprint 0 for no fingerprint.               *)
(***************************************************************************)
\* calls of handleFileChange that can be in flight together
MaxRuns == 2
Runs == 1..MaxRuns

\* the useState cells of App before a file is selected
NoApp ==
    [file |-> <<>>, originalStats |-> <<>>, transcriptData |-> "null",
     summaryData |-> "null", error |-> "null", summaryError |-> "null",
     historyCount |-> 0, reuseDialogOpen |-> FALSE, cachedEntry |-> <<>>,
     currentFileHash |-> 0, shouldUseCache |-> FALSE]

NoFileChange == [pc |-> "none", selectedFile |-> <<>>, fileHash |-> 0]

NoSubmit ==
    [pc |-> "none", file |-> <<>>, currentFileHash |-> 0, originalStats |-> <<>>,
     transcript |-> "null", summary |-> "null"]

NoWorkflow ==
    /\ app = NoApp
    /\ fileChange = [r \in Runs |-> NoFileChange]
    /\ submit = NoSubmit
    /\ decision = "none"

(***************************************************************************)
(* The object store: requests of IndexedDB on 'history'.                   *)
(***************************************************************************)
\* mutant: put adds the record without replacing the one of the same key
Put_noReplace(objectStore, entry) ==
    objectStore \cup {entry}

\* objectStore.put(entry) with keyPath 'fileHash'
Put(objectStore, entry) ==
    {r \in objectStore : r.fileHash # entry.fileHash} \cup {entry}

\* objectStore.get(fileHash): <<>> stands for undefined
Get(objectStore, fileHash) ==
    LET found == {r \in objectStore : r.fileHash = fileHash}
    IN  IF found = {} THEN <<>> ELSE <<CHOOSE r \in found : TRUE>>

\* mutant: delete removes every record up to the key
Delete_upTo(objectStore, fileHash) ==
    {r \in objectStore : r.fileHash > fileHash}

\* objectStore.delete(fileHash)
Delete(objectStore, fileHash) ==
    {r \in objectStore : r.fileHash # fileHash}

\* objectStore.count()
Count(objectStore) == Cardinality(objectStore)

\* order of index 'processedAt': by key, ties by primary key
IndexBefore(a, b) ==
    \/ a.processedAt < b.processedAt
    \/ a.processedAt = b.processedAt /\ a.fileHash < b.fileHash

\* mutant: the cursor walks the index in ascending order ('next')
RECURSIVE IndexCursor_ascending(_)
IndexCursor_ascending(records) ==
    IF records = {} THEN <<>>
    ELSE LET first == CHOOSE r \in records :
                        \A other \in records : ~IndexBefore(other, r)
         IN  <<first>> \o IndexCursor_ascending(records \ {first})

\* index.openCursor(null, 'prev'): every record, descending
RECURSIVE IndexCursor(_)
IndexCursor(records) ==
    IF records = {} THEN <<>>
    ELSE LET first == CHOOSE r \in records :
                        \A other \in records : ~IndexBefore(r, other)
         IN  <<first>> \o IndexCursor(records \ {first})

\* mutant: transactions on 'history' are not serialized
TxnCanStart_unserialized == TRUE

\* a transaction on 'history' starts once no readwrite transaction is active
TxnCanStart == rwTxn = "none"

(***************************************************************************)
(* Results of the read operations.                                         *)
(***************************************************************************)
\* mutant: the record is returned as stored (request.result || null)
LookupResult_raw(objectStore, fileHash, dateNow) ==
    Get(objectStore, fileHash)

\* getHistoryEntry: request.onsuccess; <<>> stands for null
LookupResult(objectStore, fileHash, dateNow) ==
    LET result == Get(objectStore, fileHash)
    IN  IF result # <<>>
        THEN <<normalizeHistoryEntry(result[1], dateNow)>>
        ELSE <<>>

\* mutant: the cursor values are pushed as they are stored
AllHistory_raw(objectStore, dateNow) ==
    IndexCursor(objectStore)

\* getAllHistory: the entries pushed while the cursor advances
AllHistory(objectStore, dateNow) ==
    LET cursor == IndexCursor(objectStore)
    IN  [i \in 1..Len(cursor) |-> normalizeHistoryEntry(cursor[i], dateNow)]

\* mutant: the slice takes the surplus from the front of the list
Slice_front(allEntries, maxItems) ==
    SubSeq(allEntries, 1, Len(allEntries) - maxItems)

\* allEntries.slice(maxItems)
Slice(allEntries, maxItems) ==
    SubSeq(allEntries, maxItems + 1, Len(allEntries))


(***************************************************************************)
(* Operations of utils/historyStorage.  Each starts in a tab that is idle  *)
(* and ends with the tab settled; Resume hands the result to the caller.   *)
(* openDatabase finds the store at DB_VERSION: no upgrade runs here.       *)
(***************************************************************************)
Settle(t, result) ==
    /\ pc' = [pc EXCEPT ![t] = "settled"]
    /\ ret' = [ret EXCEPT ![t] = result]

\* the caller's await continues: the call frame is gone
Resume(t) ==
    /\ pc[t] = "settled"
    /\ pc' = [pc EXCEPT ![t] = "idle"]
    /\ ret' = [ret EXCEPT ![t] = NoRet]
    /\ call' = [call EXCEPT ![t] = NoCall]
    /\ UNCHANGED <<store, now, rwTxn, lastSaved, appends, normArg, normRet, openVars, enumVars, uiVars>>

saveHistoryEntry(t, entry) ==
    /\ pc[t] = "idle"
    /\ TxnCanStart
    /\ store' = Put(store, entry)
    /\ lastSaved' = [lastSaved EXCEPT ![entry.fileHash] = <<entry>>]
    /\ appends' = [appends EXCEPT ![entry.fileHash] = 0]
    /\ call' = [call EXCEPT ![t] = [NoCall EXCEPT !.op = "saveHistoryEntry",
                                                   !.fileHash = entry.fileHash,
                                                   !.entry = <<entry>>]]
    /\ Settle(t, Resolved("saveHistoryEntry", <<>>, <<>>, 0))
    /\ UNCHANGED <<now, rwTxn, normArg, normRet, openVars, enumVars, uiVars>>

\* mutant: a key that is not in the store rejects the lookup
getHistoryEntry_rejectsAbsent(t, fileHash) ==
    /\ pc[t] = "idle"
    /\ TxnCanStart
    /\ call' = [call EXCEPT ![t] = [NoCall EXCEPT !.op = "getHistoryEntry",
                                                   !.fileHash = fileHash]]
    /\ IF Get(store, fileHash) = <<>>
       THEN Settle(t, Rejected("getHistoryEntry", "Failed to get history entry"))
       ELSE Settle(t, Resolved("getHistoryEntry", LookupResult(store, fileHash, now), <<>>, 0))
    /\ UNCHANGED <<store, now, rwTxn, lastSaved, appends, normArg, normRet, openVars, enumVars, uiVars>>

getHistoryEntry(t, fileHash) ==
    /\ pc[t] = "idle"
    /\ TxnCanStart
    /\ call' = [call EXCEPT ![t] = [NoCall EXCEPT !.op = "getHistoryEntry",
                                                   !.fileHash = fileHash]]
    /\ Settle(t, Resolved("getHistoryEntry", LookupResult(store, fileHash, now), <<>>, 0))
    /\ UNCHANGED <<store, now, rwTxn, lastSaved, appends, normArg, normRet, openVars, enumVars, uiVars>>

getAllHistory(t) ==
    /\ pc[t] = "idle"
    /\ TxnCanStart
    /\ call' = [call EXCEPT ![t] = [NoCall EXCEPT !.op = "getAllHistory"]]
    /\ Settle(t, Resolved("getAllHistory", <<>>, AllHistory(store, now), 0))
    /\ UNCHANGED <<store, now, rwTxn, lastSaved, appends, normArg, normRet, openVars, enumVars, uiVars>>

deleteHistoryEntry(t, fileHash) ==
    /\ pc[t] = "idle"
    /\ TxnCanStart
    /\ store' = Delete(store, fileHash)
    /\ lastSaved' = [lastSaved EXCEPT ![fileHash] = <<>>]
    /\ appends' = [appends EXCEPT ![fileHash] = 0]
    /\ call' = [call EXCEPT ![t] = [NoCall EXCEPT !.op = "deleteHistoryEntry",
                                                   !.fileHash = fileHash]]
    /\ Settle(t, Resolved("deleteHistoryEntry", <<>>, <<>>, 0))
    /\ UNCHANGED <<now, rwTxn, normArg, normRet, openVars, enumVars, uiVars>>

\* mutant: clear keeps the record of the smallest key
clearAllHistory_keepsFirst(t) ==
    /\ pc[t] = "idle"
    /\ TxnCanStart
    /\ store' = {r \in store : \A other \in store : r.fileHash <= other.fileHash}
    /\ lastSaved' = [h \in Hashes |-> <<>>]
    /\ appends' = [h \in Hashes |-> 0]
    /\ call' = [call EXCEPT ![t] = [NoCall EXCEPT !.op = "clearAllHistory"]]
    /\ Settle(t, Resolved("clearAllHistory", <<>>, <<>>, 0))
    /\ UNCHANGED <<now, rwTxn, normArg, normRet, openVars, enumVars, uiVars>>

clearAllHistory(t) ==
    /\ pc[t] = "idle"
    /\ TxnCanStart
    /\ store' = {}
    /\ lastSaved' = [h \in Hashes |-> <<>>]
    /\ appends' = [h \in Hashes |-> 0]
    /\ call' = [call EXCEPT ![t] = [NoCall EXCEPT !.op = "clearAllHistory"]]
    /\ Settle(t, Resolved("clearAllHistory", <<>>, <<>>, 0))
    /\ UNCHANGED <<now, rwTxn, normArg, normRet, openVars, enumVars, uiVars>>

getHistoryCount(t) ==
    /\ pc[t] = "idle"
    /\ TxnCanStart
    /\ call' = [call EXCEPT ![t] = [NoCall EXCEPT !.op = "getHistoryCount"]]
    /\ Settle(t, Resolved("getHistoryCount", <<>>, <<>>, Count(store)))
    /\ UNCHANGED <<store, now, rwTxn, lastSaved, appends, normArg, normRet, openVars, enumVars, uiVars>>


(***************************************************************************)
(* addSummaryVersion: one readwrite transaction, a get request and, from   *)
(* its onsuccess callback, a put request.                                  *)
(***************************************************************************)
\* mutant: the new revision is put in front and processedAt is refreshed
WithSummaryVersion_reorders(entry, summaryVersion) ==
    [entry EXCEPT
        !.summaries = ArrayOf(<<summaryVersion>> \o
            (IF entry.summaries.kind = "array" THEN entry.summaries.items ELSE <<>>)),
        !.processedAt = summaryVersion.generatedAt,
        !.metadata = IF entry.metadata.defined
                     THEN [entry.metadata EXCEPT !.llmModel = llm_model(summaryVersion.summary)]
                     ELSE entry.metadata]

\* mutant: the revision is appended and the metadata are left as they are
WithSummaryVersion_keepsModel(entry, summaryVersion) ==
    [entry EXCEPT
        !.summaries = ArrayOf(Append(
            IF entry.summaries.kind = "array" THEN entry.summaries.items ELSE <<>>,
            summaryVersion))]

\* the entry as the onsuccess callback changes it before the put
WithSummaryVersion(entry, summaryVersion) ==
    [entry EXCEPT
        !.summaries = ArrayOf(Append(
            IF entry.summaries.kind = "array" THEN entry.summaries.items ELSE <<>>,
            summaryVersion)),
        !.metadata = IF entry.metadata.defined
                     THEN [entry.metadata EXCEPT !.llmModel = llm_model(summaryVersion.summary)]
                     ELSE entry.metadata]

\* addSummaryVersion is called: openDatabase is awaited
addSummaryVersion(t, fileHash, summaryVersion) ==
    /\ pc[t] = "idle"
    /\ call' = [call EXCEPT ![t] = [NoCall EXCEPT !.op = "addSummaryVersion",
                                                   !.fileHash = fileHash,
                                                   !.summaryVersion = summaryVersion]]
    /\ pc' = [pc EXCEPT ![t] = "addSummaryVersion_get"]
    /\ UNCHANGED <<store, now, rwTxn, ret, lastSaved, appends, normArg, normRet, openVars, enumVars, uiVars>>

\* mutant: an unknown key is created instead of rejected
addSummaryVersion_get_upsert(t) ==
    /\ pc[t] = "addSummaryVersion_get"
    /\ TxnCanStart
    /\ LET entry == Get(store, call[t].fileHash)
       IN  /\ call' = [call EXCEPT ![t].entry =
                        IF entry = <<>>
                        THEN <<HistoryEntry(call[t].fileHash, "", 0, "undefined", ArrayOf(<<>>))>>
                        ELSE entry]
           /\ pc' = [pc EXCEPT ![t] = "addSummaryVersion_put"]
           /\ rwTxn' = t
           /\ UNCHANGED ret
    /\ UNCHANGED <<store, now, lastSaved, appends, normArg, normRet, openVars, enumVars, uiVars>>

\* the transaction starts and the get request succeeds
addSummaryVersion_get(t) ==
    /\ pc[t] = "addSummaryVersion_get"
    /\ TxnCanStart
    /\ LET entry == Get(store, call[t].fileHash)
       IN  /\ call' = [call EXCEPT ![t].entry = entry]
           /\ IF entry = <<>>
              THEN /\ Settle(t, Rejected("addSummaryVersion", "History entry not found"))
                   /\ UNCHANGED rwTxn
              ELSE /\ pc' = [pc EXCEPT ![t] = "addSummaryVersion_put"]
                   /\ rwTxn' = t
                   /\ UNCHANGED ret
    /\ UNCHANGED <<store, now, lastSaved, appends, normArg, normRet, openVars, enumVars, uiVars>>

\* the put request succeeds and the transaction completes
addSummaryVersion_put(t) ==
    /\ pc[t] = "addSummaryVersion_put"
    /\ store' = Put(store, WithSummaryVersion(call[t].entry[1], call[t].summaryVersion))
    /\ appends' = [appends EXCEPT ![call[t].fileHash] = @ + 1]
    /\ rwTxn' = IF rwTxn = t THEN "none" ELSE rwTxn
    /\ Settle(t, Resolved("addSummaryVersion", <<>>, <<>>, 0))
    /\ UNCHANGED <<now, call, lastSaved, normArg, normRet, openVars, enumVars, uiVars>>

(***************************************************************************)
(* enforceStorageLimit, called directly or from handleSubmit after the     *)
(* save; every deleteHistoryEntry of its loop is a transaction of its own. *)
(***************************************************************************)
\* enforceStorageLimit returns to its caller
EnforceReturn(t, op) ==
    IF op = "handleSubmit"
    THEN /\ pc' = [pc EXCEPT ![t] = "handleSubmit_214"]
         /\ UNCHANGED ret
    ELSE Settle(t, Resolved("enforceStorageLimit", <<>>, <<>>, 0))

\* mutant: the slice keeps one entry more than maxItems
EnforceBegin_offByOne(t, maxItems, op) ==
    /\ TxnCanStart
    /\ LET allEntries == AllHistory(store, now)
       IN  IF Len(allEntries) <= maxItems + 1
           THEN /\ call' = [call EXCEPT ![t] = [call[t] EXCEPT !.op = op,
                                                       !.maxItems = maxItems,
                                                       !.allEntries = allEntries]]
                /\ EnforceReturn(t, op)
           ELSE /\ call' = [call EXCEPT ![t] = [call[t] EXCEPT !.op = op,
                                                       !.maxItems = maxItems,
                                                       !.allEntries = allEntries,
                                                       !.entriesToDelete = Slice(allEntries, maxItems + 1)]]
                /\ pc' = [pc EXCEPT ![t] = "enforceStorageLimit_delete"]
                /\ UNCHANGED ret
    /\ UNCHANGED <<store, now, rwTxn, lastSaved, appends, normArg, normRet, openVars, enumVars, uiVars>>

\* getAllHistory resolves; within the limit the function returns
EnforceBegin(t, maxItems, op) ==
    /\ TxnCanStart
    /\ LET allEntries == AllHistory(store, now)
       IN  IF Len(allEntries) <= maxItems
           THEN /\ call' = [call EXCEPT ![t] = [call[t] EXCEPT !.op = op,
                                                       !.maxItems = maxItems,
                                                       !.allEntries = allEntries]]
                /\ EnforceReturn(t, op)
           ELSE /\ call' = [call EXCEPT ![t] = [call[t] EXCEPT !.op = op,
                                                       !.maxItems = maxItems,
                                                       !.allEntries = allEntries,
                                                       !.entriesToDelete = Slice(allEntries, maxItems)]]
                /\ pc' = [pc EXCEPT ![t] = "enforceStorageLimit_delete"]
                /\ UNCHANGED ret
    /\ UNCHANGED <<store, now, rwTxn, lastSaved, appends, normArg, normRet, openVars, enumVars, uiVars>>

enforceStorageLimit(t, maxItems) ==
    /\ pc[t] = "idle"
    /\ EnforceBegin(t, maxItems, "enforceStorageLimit")

\* mutant: the loop deletes the first entry of the surplus and returns
enforceStorageLimit_delete_once(t) ==
    /\ pc[t] = "enforceStorageLimit_delete"
    /\ TxnCanStart
    /\ LET entry == Head(call[t].entriesToDelete)
       IN  /\ store' = Delete(store, entry.fileHash)
           /\ lastSaved' = [lastSaved EXCEPT ![entry.fileHash] = <<>>]
           /\ appends' = [appends EXCEPT ![entry.fileHash] = 0]
           /\ call' = [call EXCEPT ![t].entriesToDelete = <<>>]
           /\ EnforceReturn(t, call[t].op)
    /\ UNCHANGED <<now, rwTxn, normArg, normRet, openVars, enumVars, uiVars>>

\* one pass of the loop: await deleteHistoryEntry(entry.fileHash)
enforceStorageLimit_delete(t) ==
    /\ pc[t] = "enforceStorageLimit_delete"
    /\ TxnCanStart
    /\ LET entry == Head(call[t].entriesToDelete)
           rest == Tail(call[t].entriesToDelete)
       IN  /\ store' = Delete(store, entry.fileHash)
           /\ lastSaved' = [lastSaved EXCEPT ![entry.fileHash] = <<>>]
           /\ appends' = [appends EXCEPT ![entry.fileHash] = 0]
           /\ call' = [call EXCEPT ![t].entriesToDelete = rest]
           /\ IF rest = <<>>
              THEN EnforceReturn(t, call[t].op)
              ELSE UNCHANGED <<pc, ret>>
    /\ UNCHANGED <<now, rwTxn, normArg, normRet, openVars, enumVars, uiVars>>

(***************************************************************************)
(* handleSubmit, the history block after a successful transcription:       *)
(* saveHistoryEntry, enforceStorageLimit, loadHistoryCount.                *)
(***************************************************************************)
handleSubmit_saveHistoryEntry(t, historyEntry) ==
    /\ pc[t] = "idle"
    /\ TxnCanStart
    /\ store' = Put(store, historyEntry)
    /\ lastSaved' = [lastSaved EXCEPT ![historyEntry.fileHash] = <<historyEntry>>]
    /\ appends' = [appends EXCEPT ![historyEntry.fileHash] = 0]
    /\ call' = [call EXCEPT ![t] = [NoCall EXCEPT !.op = "handleSubmit",
                                                   !.fileHash = historyEntry.fileHash,
                                                   !.entry = <<historyEntry>>]]
    /\ pc' = [pc EXCEPT ![t] = "handleSubmit_213"]
    /\ UNCHANGED <<now, rwTxn, ret, normArg, normRet, openVars, enumVars, uiVars>>

handleSubmit_enforceStorageLimit(t) ==
    /\ pc[t] = "handleSubmit_213"
    /\ EnforceBegin(t, MaxItems, "handleSubmit")

handleSubmit_loadHistoryCount(t) ==
    /\ pc[t] = "handleSubmit_214"
    /\ TxnCanStart
    /\ Settle(t, Resolved("handleSubmit", <<>>, <<>>, Count(store)))
    /\ UNCHANGED <<store, now, rwTxn, call, lastSaved, appends, normArg, normRet, openVars, enumVars, uiVars>>

(***************************************************************************)
(* openDatabase: indexedDB.open(DB_NAME, DB_VERSION).  A database behind    *)
(* DB_VERSION is upgraded in a versionchange transaction before the open   *)
(* succeeds; dbVersion 0 stands for a database that does not exist yet.    *)
(***************************************************************************)
DB_VERSION == 2

\* open handles a tab may accumulate before it starts no further operation
MaxHandles == 2

NoUpgrade ==
    [oldVersion |-> DB_VERSION, cursor |-> <<>>, snapshot |-> {}, failedKey |-> 0]

\* mutant: the wrapped summary is added to the summaries already there and
\* the legacy field is kept
MigrateRecord_appends(entry) ==
    IF entry.summary # "undefined"
    THEN [entry EXCEPT !.summaries = ArrayOf(
            (IF entry.summaries.kind = "array" THEN entry.summaries.items ELSE <<>>)
            \o (IF entry.summary # "null"
                THEN <<SummaryVersion(entry.summary, entry.processedAt, 1)>>
                ELSE <<>>))]
    ELSE entry

\* mutant: generatedAt is taken from the clock of the migration
MigrateRecord_stampsOne(entry) ==
    IF entry.summary # "undefined" /\ entry.summaries.kind \in {"undefined", "null"}
    THEN [entry EXCEPT
            !.summaries = ArrayOf(
                IF entry.summary # "null"
                THEN <<SummaryVersion(entry.summary, 1, 1)>>
                ELSE <<>>),
            !.summary = "undefined"]
    ELSE entry

\* mutant: the migration keeps the legacy field next to the array
MigrateRecord_keepsField(entry) ==
    IF entry.summary # "undefined" /\ entry.summaries.kind \in {"undefined", "null"}
    THEN [entry EXCEPT
            !.summaries = ArrayOf(
                IF entry.summary # "null"
                THEN <<SummaryVersion(entry.summary, entry.processedAt, 1)>>
                ELSE <<>>)]
    ELSE entry

\* the cursor callback of the migration on one record: the record that is in
\* the store once the callback has returned
MigrateRecord(entry) ==
    IF entry.summary # "undefined" /\ entry.summaries.kind \in {"undefined", "null"}
    THEN [entry EXCEPT
            !.summaries = ArrayOf(
                IF entry.summary # "null"
                THEN <<SummaryVersion(entry.summary, entry.processedAt, 1)>>
                ELSE <<>>),
            !.summary = "undefined"]
    ELSE entry

\* objectStore.openCursor(): the primary keys in ascending order
RECURSIVE PrimaryKeyCursor(_)
PrimaryKeyCursor(records) ==
    IF records = {} THEN <<>>
    ELSE LET first == CHOOSE r \in records : \A other \in records : r.fileHash <= other.fileHash
         IN  <<first.fileHash>> \o PrimaryKeyCursor(records \ {first})

\* another page holds a connection to the database: an open that has to
\* upgrade waits until every such connection is closed
OthersConnected(t) ==
    \E other \in Tabs \ {t} : handles[other] > 0

\* an operation of utils/historyStorage is called and awaits openDatabase()
openDatabase(t, op, fileHash, entry, summaryVersion) ==
    /\ pc[t] = "idle"
    /\ txn[t] = "none"
    /\ handles[t] < MaxHandles
    /\ call' = [call EXCEPT ![t] = [NoCall EXCEPT !.op = op,
                                                   !.fileHash = fileHash,
                                                   !.entry = entry,
                                                   !.summaryVersion = summaryVersion]]
    /\ IF dbVersion < DB_VERSION /\ OthersConnected(t)
       THEN \* the open waits for the connections of the other pages to
            \* close; request.onblocked is not set
            /\ pc' = [pc EXCEPT ![t] = "openDatabase_blocked"]
            /\ UNCHANGED <<upgrade, handles, txn>>
       ELSE IF dbVersion < DB_VERSION
       THEN \* request.onupgradeneeded
            /\ upgrade' = [oldVersion |-> dbVersion,
                           cursor |-> IF dbVersion = 0 THEN <<>> ELSE PrimaryKeyCursor(store),
                           snapshot |-> store,
                           failedKey |-> 0]
            /\ pc' = [pc EXCEPT ![t] = "openDatabase_upgrade"]
            /\ UNCHANGED <<handles, txn>>
       ELSE \* request.onsuccess: resolve(request.result)
            /\ upgrade' = NoUpgrade
            /\ handles' = [handles EXCEPT ![t] = @ + 1]
            /\ txn' = [txn EXCEPT ![t] = "active"]
            /\ pc' = [pc EXCEPT ![t] = "request"]
    /\ UNCHANGED <<store, now, rwTxn, ret, lastSaved, appends, normArg, normRet,
                   dbVersion, enumVars, uiVars>>

\* the last connection of the other pages is closed: request.onupgradeneeded
openDatabase_unblocked(t) ==
    /\ pc[t] = "openDatabase_blocked"
    /\ ~OthersConnected(t)
    /\ upgrade' = [oldVersion |-> dbVersion,
                   cursor |-> IF dbVersion = 0 THEN <<>> ELSE PrimaryKeyCursor(store),
                   snapshot |-> store,
                   failedKey |-> 0]
    /\ pc' = [pc EXCEPT ![t] = "openDatabase_upgrade"]
    /\ UNCHANGED <<store, now, rwTxn, call, ret, lastSaved, appends, normArg, normRet,
                   dbVersion, handles, txn, enumVars, uiVars>>

\* the cursor of the migration is on a record: cursor.update where the
\* record needs it, then cursor.continue()
openDatabase_cursor(t) ==
    /\ pc[t] = "openDatabase_upgrade"
    /\ upgrade.cursor # <<>>
    /\ store' = Put(store, MigrateRecord(Get(store, Head(upgrade.cursor))[1]))
    /\ upgrade' = [upgrade EXCEPT !.cursor = Tail(@)]
    /\ UNCHANGED <<now, rwTxn, pc, call, ret, lastSaved, appends, normArg, normRet,
                   dbVersion, handles, txn, enumVars, uiVars>>

\* the request of cursor.update fails: nothing handles its error event, the
\* versionchange transaction aborts and request.onerror of the open rejects
openDatabase_updateError(t) ==
    /\ pc[t] = "openDatabase_upgrade"
    /\ upgrade.cursor # <<>>
    /\ LET entry == Get(store, Head(upgrade.cursor))[1]
       IN  MigrateRecord(entry) # entry
    /\ store' = upgrade.snapshot
    /\ upgrade' = [upgrade EXCEPT !.cursor = <<>>, !.failedKey = Head(upgrade.cursor)]
    /\ Settle(t, Rejected(call[t].op, "Failed to open database"))
    /\ UNCHANGED <<now, rwTxn, call, lastSaved, appends, normArg, normRet,
                   dbVersion, handles, txn, enumVars, uiVars>>

\* the cursor is exhausted, the versionchange transaction completes and
\* request.onsuccess resolves with the handle
openDatabase_onsuccess(t) ==
    /\ pc[t] = "openDatabase_upgrade"
    /\ upgrade.cursor = <<>>
    /\ dbVersion' = DB_VERSION
    /\ handles' = [handles EXCEPT ![t] = @ + 1]
    /\ txn' = [txn EXCEPT ![t] = "active"]
    /\ pc' = [pc EXCEPT ![t] = "request"]
    /\ UNCHANGED <<store, now, rwTxn, call, ret, lastSaved, appends, normArg, normRet,
                   upgrade, enumVars, uiVars>>

(***************************************************************************)
(* The body every operation runs on the handle: one transaction, its       *)
(* request(s), resolve or reject from the request callbacks, and db.close()*)
(* from transaction.oncomplete.                                            *)
(***************************************************************************)
\* the message of reject(new Error(...)) in request.onerror
RequestError(op) ==
    CASE op = "saveHistoryEntry" -> "Failed to save history entry"
      [] op = "getHistoryEntry" -> "Failed to get history entry"
      [] op = "getAllHistory" -> "Failed to get all history"
      [] op = "deleteHistoryEntry" -> "Failed to delete history entry"
      [] op = "clearAllHistory" -> "Failed to clear history"
      [] op = "getHistoryCount" -> "Failed to get history count"
      [] OTHER -> "Failed to update history entry"

\* mutant: getHistoryEntry puts the normalized record back
request_onsuccess_writesBack(t) ==
    /\ pc[t] = "request"
    /\ LET c == call[t]
           found == Get(store, c.fileHash)
       IN  \/ /\ c.op = "saveHistoryEntry"
              /\ store' = Put(store, c.entry[1])
              /\ lastSaved' = [lastSaved EXCEPT ![c.fileHash] = c.entry]
              /\ appends' = [appends EXCEPT ![c.fileHash] = 0]
              /\ Settle(t, Resolved(c.op, <<>>, <<>>, 0))
           \/ /\ c.op = "getHistoryEntry"
              /\ Settle(t, Resolved(c.op, LookupResult(store, c.fileHash, now), <<>>, 0))
              /\ store' = IF found # <<>>
                          THEN Put(store, normalizeHistoryEntry(found[1], now))
                          ELSE store
              /\ UNCHANGED <<lastSaved, appends>>
           \/ /\ c.op = "getAllHistory"
              /\ Settle(t, Resolved(c.op, <<>>, AllHistory(store, now), 0))
              /\ UNCHANGED <<store, lastSaved, appends>>
           \/ /\ c.op = "deleteHistoryEntry"
              /\ store' = Delete(store, c.fileHash)
              /\ lastSaved' = [lastSaved EXCEPT ![c.fileHash] = <<>>]
              /\ appends' = [appends EXCEPT ![c.fileHash] = 0]
              /\ Settle(t, Resolved(c.op, <<>>, <<>>, 0))
           \/ /\ c.op = "clearAllHistory"
              /\ store' = {}
              /\ lastSaved' = [h \in Hashes |-> <<>>]
              /\ appends' = [h \in Hashes |-> 0]
              /\ Settle(t, Resolved(c.op, <<>>, <<>>, 0))
           \/ /\ c.op = "getHistoryCount"
              /\ Settle(t, Resolved(c.op, <<>>, <<>>, Count(store)))
              /\ UNCHANGED <<store, lastSaved, appends>>
           \/ /\ c.op = "addSummaryVersion"
              /\ found = <<>>
              /\ Settle(t, Rejected(c.op, "History entry not found"))
              /\ UNCHANGED <<store, lastSaved, appends>>
           \/ /\ c.op = "addSummaryVersion"
              /\ found # <<>>
              /\ store' = Put(store, WithSummaryVersion(found[1], c.summaryVersion))
              /\ appends' = [appends EXCEPT ![c.fileHash] = @ + 1]
              /\ Settle(t, Resolved(c.op, <<>>, <<>>, 0))
              /\ UNCHANGED lastSaved
    /\ UNCHANGED <<now, rwTxn, call, normArg, normRet, openVars, enumVars, uiVars>>

\* request.onsuccess: the request has acted on the store and the promise of
\* the operation settles; the transaction is still active
request_onsuccess(t) ==
    /\ pc[t] = "request"
    /\ LET c == call[t]
           found == Get(store, c.fileHash)
       IN  \/ /\ c.op = "saveHistoryEntry"
              /\ store' = Put(store, c.entry[1])
              /\ lastSaved' = [lastSaved EXCEPT ![c.fileHash] = c.entry]
              /\ appends' = [appends EXCEPT ![c.fileHash] = 0]
              /\ Settle(t, Resolved(c.op, <<>>, <<>>, 0))
           \/ /\ c.op = "getHistoryEntry"
              /\ Settle(t, Resolved(c.op, LookupResult(store, c.fileHash, now), <<>>, 0))
              /\ UNCHANGED <<store, lastSaved, appends>>
           \/ /\ c.op = "getAllHistory"
              /\ Settle(t, Resolved(c.op, <<>>, AllHistory(store, now), 0))
              /\ UNCHANGED <<store, lastSaved, appends>>
           \/ /\ c.op = "deleteHistoryEntry"
              /\ store' = Delete(store, c.fileHash)
              /\ lastSaved' = [lastSaved EXCEPT ![c.fileHash] = <<>>]
              /\ appends' = [appends EXCEPT ![c.fileHash] = 0]
              /\ Settle(t, Resolved(c.op, <<>>, <<>>, 0))
           \/ /\ c.op = "clearAllHistory"
              /\ store' = {}
              /\ lastSaved' = [h \in Hashes |-> <<>>]
              /\ appends' = [h \in Hashes |-> 0]
              /\ Settle(t, Resolved(c.op, <<>>, <<>>, 0))
           \/ /\ c.op = "getHistoryCount"
              /\ Settle(t, Resolved(c.op, <<>>, <<>>, Count(store)))
              /\ UNCHANGED <<store, lastSaved, appends>>
           \/ /\ c.op = "addSummaryVersion"
              /\ found = <<>>
              /\ Settle(t, Rejected(c.op, "History entry not found"))
              /\ UNCHANGED <<store, lastSaved, appends>>
           \/ /\ c.op = "addSummaryVersion"
              /\ found # <<>>
              /\ store' = Put(store, WithSummaryVersion(found[1], c.summaryVersion))
              /\ appends' = [appends EXCEPT ![c.fileHash] = @ + 1]
              /\ Settle(t, Resolved(c.op, <<>>, <<>>, 0))
              /\ UNCHANGED lastSaved
    /\ UNCHANGED <<now, rwTxn, call, normArg, normRet, openVars, enumVars, uiVars>>

\* request.onerror: the promise rejects and, the error event not being
\* handled further, the transaction aborts: oncomplete is never delivered
request_onerror(t) ==
    /\ pc[t] = "request"
    /\ Settle(t, Rejected(call[t].op, RequestError(call[t].op)))
    /\ txn' = [txn EXCEPT ![t] = "none"]
    /\ UNCHANGED <<store, now, rwTxn, call, lastSaved, appends, normArg, normRet,
                   dbVersion, upgrade, handles, enumVars, uiVars>>

\* transaction.oncomplete: db.close()
transaction_oncomplete(t) ==
    /\ txn[t] = "active"
    /\ pc[t] \in {"settled", "idle"}
    /\ txn' = [txn EXCEPT ![t] = "none"]
    /\ handles' = [handles EXCEPT ![t] = @ - 1]
    /\ UNCHANGED <<store, now, rwTxn, pc, call, ret, lastSaved, appends, normArg, normRet,
                   dbVersion, upgrade, enumVars, uiVars>>

(***************************************************************************)
(* getAllHistory, request.onsuccess of the index cursor: the loop that     *)
(* pushes normalizeHistoryEntry(cursor.value) inside try/catch.  A cursor  *)
(* value is <<record>>, or <<>> for a value normalizeHistoryEntry rejects  *)
(* with 'Entry is null or undefined'.                                      *)
(***************************************************************************)
\* mutant: the exception of normalizeHistoryEntry rejects the call
CursorLoop_rejects(values, dateNow) ==
    IF \E i \in 1..Len(values) : values[i] = <<>>
    THEN Rejected("getAllHistory", "Failed to get all history")
    ELSE Resolved("getAllHistory", <<>>,
            [i \in 1..Len(values) |-> normalizeHistoryEntry(values[i][1], dateNow)], 0)

RECURSIVE PushNormalized(_, _)
PushNormalized(values, dateNow) ==
    IF values = <<>> THEN <<>>
    ELSE (IF Head(values) = <<>>
          THEN <<>>
          ELSE <<normalizeHistoryEntry(Head(values)[1], dateNow)>>)
         \o PushNormalized(Tail(values), dateNow)

\* how the call settles once the cursor is exhausted: resolve(entries)
CursorLoop(values, dateNow) ==
    Resolved("getAllHistory", <<>>, PushNormalized(values, dateNow), 0)

Enumerate ==
    /\ cursorValues # <<>>
    /\ enumerated = <<>>
    /\ enumerated' = <<CursorLoop(cursorValues, now)>>
    /\ UNCHANGED <<store, now, rwTxn, pc, call, ret, lastSaved, appends, normArg, normRet,
                   openVars, cursorValues, uiVars>>

(***************************************************************************)
(* A call of normalizeHistoryEntry on a record handed to it.               *)
(***************************************************************************)
Normalize ==
    /\ normArg # <<>>
    /\ normRet = <<>>
    /\ normRet' = <<normalizeHistoryEntry(normArg[1], now)>>
    /\ UNCHANGED <<store, now, rwTxn, pc, call, ret, lastSaved, appends, normArg,
                   openVars, enumVars, uiVars>>


(***************************************************************************)
(* The cache-consult workflow of App: handleFileChange, the three buttons  *)
(* of the reuse dialog, and handleSubmit.  App imports the store           *)
(* operations from './utils/historyStorage'; the lookup of that file       *)
(* resolves the stored record as it is.  A handler that awaits is split at *)
(* its awaits; handleSubmit reads file, currentFileHash, originalStats and *)
(* shouldUseCache from the render it was called in.                        *)
(***************************************************************************)
\* the files a user can pick: a.mp3 and b.mp3 hold the same bytes
Files ==
    {[name |-> "a.mp3", content |-> "X"], [name |-> "b.mp3", content |-> "X"],
     [name |-> "c.mp3", content |-> "Y"], [name |-> "d.mp3", content |-> "Z"]}

\* mutant: the fingerprint is taken from the file name
computeFileHash_byName(file) ==
    CASE file.name = "a.mp3" -> 1
      [] file.name = "c.mp3" -> 2
      [] OTHER -> 3

\* SHA-256 of the bytes of the file: equal bytes, equal fingerprint
computeFileHash(file) ==
    CASE file.content = "X" -> 1
      [] file.content = "Y" -> 2
      [] OTHER -> 3

\* { size: selectedFile.size, duration } once getAudioDuration resolves
StatsOf(file) ==
    [size |-> 10 * computeFileHash(file), duration |-> 60 + computeFileHash(file)]

\* the body of the response of /meetings/transcribe for the file
TranscriptOf(file) ==
    CASE file.content = "X" -> "T1"
      [] file.content = "Y" -> "T2"
      [] OTHER -> "T3"

\* getHistoryEntry of utils/historyStorage.ts: request.result || null
ExistingEntry(objectStore, fileHash) ==
    Get(objectStore, fileHash)

calculateMetadata(transcript, summary) ==
    HistoryMetadata("stt-1", IF summary \in Summaries THEN llm_model(summary) ELSE "null")

\* the record handleSubmit builds from what it closed over
historyEntry(s, dateNow) ==
    [fileHash |-> s.currentFileHash,
     fileName |-> s.file[1].name,
     fileSize |-> s.originalStats[1].size,
     duration |-> s.originalStats[1].duration,
     processedAt |-> dateNow,
     transcript |-> s.transcript,
     summary |-> s.summary,
     summaries |-> UndefinedSummaries,
     metadata |-> calculateMetadata(s.transcript, s.summary)]

\* everything but the page
historyVars ==
    <<store, now, rwTxn, pc, call, ret, lastSaved, appends, normArg, normRet,
      openVars, enumVars>>

\* the change event of the file input with a file chosen
handleFileChange(r, selectedFile) ==
    /\ fileChange[r].pc = "none"
    /\ app' = [app EXCEPT !.file = <<selectedFile>>,
                          !.error = "null",
                          !.summaryError = "null",
                          !.transcriptData = "null",
                          !.summaryData = "null",
                          !.shouldUseCache = FALSE,
                          !.cachedEntry = <<>>,
                          !.currentFileHash = 0]
    /\ fileChange' = [fileChange EXCEPT ![r] =
                        [pc |-> "getAudioDuration", selectedFile |-> <<selectedFile>>,
                         fileHash |-> 0]]
    /\ decision' = "none"
    /\ UNCHANGED <<historyVars, submit>>

\* the catch block of handleFileChange
FileChangeFailed(r) ==
    /\ app' = [app EXCEPT !.error = "Failed to process audio file"]
    /\ fileChange' = [fileChange EXCEPT ![r] = NoFileChange]
    /\ decision' = "failed"

\* await getAudioDuration(selectedFile) resolves or rejects
handleFileChange_getAudioDuration(r) ==
    /\ fileChange[r].pc = "getAudioDuration"
    /\ \E ok \in BOOLEAN :
          IF ok
          THEN /\ app' = [app EXCEPT !.originalStats =
                            <<StatsOf(fileChange[r].selectedFile[1])>>]
               /\ fileChange' = [fileChange EXCEPT ![r].pc = "computeFileHash"]
               /\ UNCHANGED decision
          ELSE FileChangeFailed(r)
    /\ UNCHANGED <<historyVars, submit>>

\* await computeFileHash(selectedFile) resolves or rejects
handleFileChange_computeFileHash(r) ==
    /\ fileChange[r].pc = "computeFileHash"
    /\ \E ok \in BOOLEAN :
          IF ok
          THEN LET fileHash == computeFileHash(fileChange[r].selectedFile[1])
               IN  /\ app' = [app EXCEPT !.currentFileHash = fileHash]
                   /\ fileChange' = [fileChange EXCEPT ![r].pc = "getHistoryEntry",
                                                       ![r].fileHash = fileHash]
                   /\ UNCHANGED decision
          ELSE FileChangeFailed(r)
    /\ UNCHANGED <<historyVars, submit>>

\* mutant: a stored entry is found and no dialog is offered
handleFileChange_getHistoryEntry_silent(r) ==
    /\ fileChange[r].pc = "getHistoryEntry"
    /\ TxnCanStart
    /\ \E ok \in BOOLEAN :
          IF ok
          THEN /\ app' = app
               /\ fileChange' = [fileChange EXCEPT ![r] = NoFileChange]
               /\ UNCHANGED decision
          ELSE FileChangeFailed(r)
    /\ UNCHANGED <<historyVars, submit>>

\* await getHistoryEntry(fileHash) resolves or rejects
handleFileChange_getHistoryEntry(r) ==
    /\ fileChange[r].pc = "getHistoryEntry"
    /\ TxnCanStart
    /\ \E ok \in BOOLEAN :
          IF ok
          THEN LET existingEntry == ExistingEntry(store, fileChange[r].fileHash)
               IN  /\ app' = IF existingEntry # <<>>
                             THEN [app EXCEPT !.cachedEntry = existingEntry,
                                              !.reuseDialogOpen = TRUE]
                             ELSE app
                   /\ fileChange' = [fileChange EXCEPT ![r] = NoFileChange]
                   /\ UNCHANGED decision
          ELSE FileChangeFailed(r)
    /\ UNCHANGED <<historyVars, submit>>

\* mutant: the cached transcript is loaded without its summary
handleLoadCachedEntry_transcriptOnly(a, entry, count) ==
    [a EXCEPT !.error = "null",
              !.summaryError = "null",
              !.transcriptData = entry.transcript,
              !.file = <<>>,
              !.originalStats = <<[size |-> entry.fileSize, duration |-> entry.duration]>>,
              !.historyCount = count]

\* the cells after handleLoadCachedEntry(entry); count is what its
\* loadHistoryCount leaves in historyCount
handleLoadCachedEntry(a, entry, count) ==
    [a EXCEPT !.error = "null",
              !.summaryError = "null",
              !.transcriptData = entry.transcript,
              !.summaryData = entry.summary,
              !.file = <<>>,
              !.originalStats = <<[size |-> entry.fileSize, duration |-> entry.duration]>>,
              !.historyCount = count]

\* the dialog is rendered: isOpen and entry
DialogShown ==
    /\ app.reuseDialogOpen
    /\ app.cachedEntry # <<>>

\* button "Use Cached Results"; loadHistoryCount reads the count or fails
handleUseCacheFromDialog ==
    /\ DialogShown
    /\ TxnCanStart
    /\ \E count \in {app.historyCount, Count(store)} :
          app' = [handleLoadCachedEntry(app, app.cachedEntry[1], count) EXCEPT
                      !.shouldUseCache = TRUE,
                      !.reuseDialogOpen = FALSE]
    /\ decision' = "reuse"
    /\ UNCHANGED <<historyVars, fileChange, submit>>

\* mutant: Reprocess also drops the selected file
handleReprocessFromDialog_dropsFile ==
    /\ DialogShown
    /\ app' = [app EXCEPT !.shouldUseCache = FALSE,
                          !.cachedEntry = <<>>,
                          !.reuseDialogOpen = FALSE,
                          !.file = <<>>]
    /\ decision' = "reprocess"
    /\ UNCHANGED <<historyVars, fileChange, submit>>

\* button "Reprocess File"
handleReprocessFromDialog ==
    /\ DialogShown
    /\ app' = [app EXCEPT !.shouldUseCache = FALSE,
                          !.cachedEntry = <<>>,
                          !.reuseDialogOpen = FALSE]
    /\ decision' = "reprocess"
    /\ UNCHANGED <<historyVars, fileChange, submit>>

\* mutant: Cancel keeps the fingerprint of the file
handleCancelDialog_keepsHash ==
    /\ DialogShown
    /\ app' = [app EXCEPT !.reuseDialogOpen = FALSE,
                          !.file = <<>>,
                          !.originalStats = <<>>,
                          !.cachedEntry = <<>>]
    /\ decision' = "cancel"
    /\ UNCHANGED <<historyVars, fileChange, submit>>

\* button "Cancel" and a click on the overlay
handleCancelDialog ==
    /\ DialogShown
    /\ app' = [app EXCEPT !.reuseDialogOpen = FALSE,
                          !.file = <<>>,
                          !.originalStats = <<>>,
                          !.currentFileHash = 0,
                          !.cachedEntry = <<>>]
    /\ decision' = "cancel"
    /\ UNCHANGED <<historyVars, fileChange, submit>>

\* the form is submitted; with shouldUseCache set the handler returns at once
handleSubmit ==
    /\ submit.pc = "none"
    /\ ~app.shouldUseCache
    /\ IF app.file = <<>>
       THEN /\ app' = [app EXCEPT !.error = "Please select an audio file"]
            /\ UNCHANGED submit
       ELSE /\ app' = [app EXCEPT !.error = "null",
                                  !.summaryError = "null",
                                  !.transcriptData = "null",
                                  !.summaryData = "null"]
            /\ submit' = [NoSubmit EXCEPT !.pc = "transcribe",
                                          !.file = app.file,
                                          !.currentFileHash = app.currentFileHash,
                                          !.originalStats = app.originalStats]
    /\ UNCHANGED <<historyVars, fileChange, decision>>

\* the request to /meetings/transcribe returns
handleSubmit_transcribe ==
    /\ submit.pc = "transcribe"
    /\ \E ok \in BOOLEAN :
          IF ok
          THEN LET transcript == TranscriptOf(submit.file[1])
               IN  /\ app' = [app EXCEPT !.transcriptData = transcript]
                   /\ submit' = [submit EXCEPT !.pc = "summarize",
                                               !.transcript = transcript]
          ELSE /\ app' = [app EXCEPT !.error = "Transcription failed"]
               /\ submit' = NoSubmit
    /\ UNCHANGED <<historyVars, fileChange, decision>>

\* mutant: without a summary the history block is skipped
handleSubmit_summarize_skips ==
    /\ submit.pc = "summarize"
    /\ \E ok \in BOOLEAN :
          LET summary == IF ok THEN "S1" ELSE "null"
              toSave == ok /\ submit.currentFileHash # 0 /\ submit.originalStats # <<>>
          IN  /\ app' = IF ok THEN [app EXCEPT !.summaryData = summary]
                              ELSE [app EXCEPT !.summaryError = "Summarization failed"]
              /\ submit' = IF toSave
                           THEN [submit EXCEPT !.pc = "history", !.summary = summary]
                           ELSE NoSubmit
    /\ UNCHANGED <<historyVars, fileChange, decision>>

\* the request to /meetings/summarize returns; the history block follows
\* when transcript, currentFileHash and originalStats are all set
handleSubmit_summarize ==
    /\ submit.pc = "summarize"
    /\ \E ok \in BOOLEAN :
          LET summary == IF ok THEN "S1" ELSE "null"
              toSave == submit.currentFileHash # 0 /\ submit.originalStats # <<>>
          IN  /\ app' = IF ok THEN [app EXCEPT !.summaryData = summary]
                              ELSE [app EXCEPT !.summaryError = "Summarization failed"]
              /\ submit' = IF toSave
                           THEN [submit EXCEPT !.pc = "history", !.summary = summary]
                           ELSE NoSubmit
    /\ UNCHANGED <<historyVars, fileChange, decision>>

\* await saveHistoryEntry(historyEntry) of the history block
handleSubmit_history(t) ==
    /\ submit.pc = "history"
    /\ handleSubmit_saveHistoryEntry(t, historyEntry(submit, now))

\* mutant: a failure of the history block is shown as a processing error
handleSubmit_historyErr_raises(t) ==
    /\ submit.pc = "history"
    /\ pc[t] \in {"idle", "handleSubmit_213", "enforceStorageLimit_delete", "handleSubmit_214"}
    /\ pc' = [pc EXCEPT ![t] = "idle"]
    /\ call' = [call EXCEPT ![t] = NoCall]
    /\ submit' = NoSubmit
    /\ app' = [app EXCEPT !.error = "Failed to save to history"]
    /\ UNCHANGED <<store, now, rwTxn, ret, lastSaved, appends, normArg, normRet,
                   openVars, enumVars, fileChange, decision>>

\* an await of the history block rejects: catch (historyErr) logs it, and
\* loadHistoryCount logs a failure of its own
handleSubmit_historyErr(t) ==
    /\ submit.pc = "history"
    /\ pc[t] \in {"idle", "handleSubmit_213", "enforceStorageLimit_delete", "handleSubmit_214"}
    /\ pc' = [pc EXCEPT ![t] = "idle"]
    /\ call' = [call EXCEPT ![t] = NoCall]
    /\ submit' = NoSubmit
    /\ UNCHANGED <<store, now, rwTxn, ret, lastSaved, appends, normArg, normRet,
                   openVars, enumVars, app, fileChange, decision>>

\* loadHistoryCount has set historyCount and handleSubmit returns
handleSubmit_finally(t) ==
    /\ submit.pc = "history"
    /\ pc[t] = "settled"
    /\ ret[t].op = "handleSubmit"
    /\ app' = [app EXCEPT !.historyCount = ret[t].count]
    /\ submit' = NoSubmit
    /\ pc' = [pc EXCEPT ![t] = "idle"]
    /\ ret' = [ret EXCEPT ![t] = NoRet]
    /\ call' = [call EXCEPT ![t] = NoCall]
    /\ UNCHANGED <<store, now, rwTxn, lastSaved, appends, normArg, normRet,
                   openVars, enumVars, fileChange, decision>>

(***************************************************************************)
(* Inputs.                                                                 *)
(***************************************************************************)
\* the record handleSubmit builds: a `summary` field and no `summaries`
SubmittedEntry(fileHash, processedAt) ==
    HistoryEntry(fileHash, "a.mp3", processedAt, "S1", UndefinedSummaries)

\* a record created with an empty summaries array
FreshEntry(fileHash, processedAt) ==
    HistoryEntry(fileHash, "b.mp3", processedAt, "undefined", ArrayOf(<<>>))

\* records of every shape a caller can hand to saveHistoryEntry
StoreInputs ==
    {SubmittedEntry(h, p) : h \in Hashes, p \in Times}
    \cup {HistoryEntry(h, "c.mp3", p, "null", UndefinedSummaries) : h \in Hashes, p \in Times}
    \cup {HistoryEntry(h, "b.mp3", p, "undefined",
            ArrayOf(<<SummaryVersion("S2", p, 1)>>)) : h \in Hashes, p \in Times}

\* records handed to normalizeHistoryEntry
NormalizeInputs ==
    {HistoryEntry(h, "a.mp3", p, s,
        CASE k = "undefined" -> UndefinedSummaries
          [] k = "null" -> NullSummaries
          [] k = "empty" -> ArrayOf(<<>>)
          [] OTHER -> ArrayOf(<<SummaryVersion("S2", p, 1)>>)) :
        h \in Hashes, p \in Times, s \in LegacySummaryValues,
        k \in {"undefined", "null", "empty", "one"}}

HashesOf(records) == {r.fileHash : r \in records}

\* the keys the append sessions create
AppendInputs ==
    {FreshEntry(1, 1), SubmittedEntry(1, 3), SubmittedEntry(2, 2)}

\* the revisions a caller hands to addSummaryVersion: each tab passes its own
\* summary and the version number its caller has chosen
VersionInputs(t) ==
    IF t = "tabA" THEN {SummaryVersion("S1", now, 1)}
                  ELSE {SummaryVersion("S2", now, MaxSummaries)}

InFlight(fileHash) ==
    Cardinality({t \in Tabs : /\ pc[t] \in {"addSummaryVersion_get", "addSummaryVersion_put"}
                              /\ call[t].fileHash = fileHash})

\* the records a version-1 database can hold under key fileHash: written by
\* handleSubmit with a summary or with null, a record without the field
\* `summary`, and a record that already has the current shape
V1Record(fileHash, shape) ==
    CASE shape = "summary" ->
            HistoryEntry(fileHash, "a.mp3", fileHash - 1, "S1", UndefinedSummaries)
      [] shape = "null" ->
            HistoryEntry(fileHash, "c.mp3", fileHash - 1, "null", UndefinedSummaries)
      [] shape = "noSummary" ->
            HistoryEntry(fileHash, "d.mp3", fileHash - 1, "undefined", UndefinedSummaries)
      [] OTHER ->
            HistoryEntry(fileHash, "b.mp3", fileHash - 1, "undefined",
                         ArrayOf(<<SummaryVersion("S2", fileHash - 1, 1)>>))

V1Stores ==
    {{V1Record(h, shapeOf[h]) : h \in {k \in Hashes : shapeOf[k] # "absent"}} :
        shapeOf \in [Hashes -> {"absent", "summary", "null", "noSummary", "migrated"}]}

\* the entries the sessions that watch the handles save
HandleInputs ==
    {FreshEntry(1, 1), SubmittedEntry(2, 2)}

\* what a cursor of getAllHistory can deliver: the records of a store in
\* index order, some of the values unusable
EnumerateInputs ==
    {[i \in 1..Len(IndexCursor(records)) |->
         IF i \in bad THEN <<>> ELSE <<IndexCursor(records)[i]>>] :
        records \in (SUBSET {SubmittedEntry(h, h) : h \in Hashes}
                        \cup SUBSET {FreshEntry(h, MaxTime - h) : h \in Hashes}) \ {{}},
        bad \in SUBSET (1..NumHashes)}

(***************************************************************************)
(* Specifications.                                                         *)
(***************************************************************************)
\* the database exists at DB_VERSION and no tab holds a handle
AtCurrentVersion ==
    /\ dbVersion = DB_VERSION
    /\ upgrade = NoUpgrade
    /\ handles = [t \in Tabs |-> 0]
    /\ txn = [t \in Tabs |-> "none"]

NoEnumeration ==
    /\ cursorValues = <<>>
    /\ enumerated = <<>>

Init ==
    /\ store = {}
    /\ now = 1
    /\ rwTxn = "none"
    /\ pc = [t \in Tabs |-> "idle"]
    /\ call = [t \in Tabs |-> NoCall]
    /\ ret = [t \in Tabs |-> NoRet]
    /\ lastSaved = [h \in Hashes |-> <<>>]
    /\ appends = [h \in Hashes |-> 0]
    /\ normArg = <<>>
    /\ normRet = <<>>
    /\ AtCurrentVersion
    /\ NoEnumeration
    /\ NoWorkflow

\* the store under the single-request operations of one tab
Next ==
    \/ \E e \in StoreInputs : saveHistoryEntry("tabA", e)
    \/ \E h \in Hashes : getHistoryEntry("tabA", h)
    \/ getAllHistory("tabA")
    \/ \E h \in Hashes : deleteHistoryEntry("tabA", h)
    \/ clearAllHistory("tabA")
    \/ getHistoryCount("tabA")
    \/ Resume("tabA")

Spec == Init /\ [][Next]_vars

\* one session in which every save is followed by enforceStorageLimit
NextEvict ==
    \/ \E h \in Hashes, p \in Times : handleSubmit_saveHistoryEntry("tabA", SubmittedEntry(h, p))
    \/ handleSubmit_enforceStorageLimit("tabA")
    \/ enforceStorageLimit_delete("tabA")
    \/ handleSubmit_loadHistoryCount("tabA")
    \/ Resume("tabA")

SpecEvict == Init /\ [][NextEvict]_vars

\* two tabs that append summary versions to shared entries
NextAppend ==
    \/ \E e \in AppendInputs : saveHistoryEntry("tabA", e)
    \/ \E h \in HashesOf(AppendInputs) : deleteHistoryEntry("tabA", h)
    \/ \E t \in Tabs, h \in Hashes : \E v \in VersionInputs(t) :
          /\ appends[h] + InFlight(h) < MaxSummaries
          /\ addSummaryVersion(t, h, v)
    \/ \E t \in Tabs : addSummaryVersion_get(t)
    \/ \E t \in Tabs : addSummaryVersion_put(t)
    \/ \E t \in Tabs : Resume(t)

SpecAppend == Init /\ [][NextAppend]_vars

\* normalizeHistoryEntry applied to one record
InitNormalize ==
    /\ store = {}
    /\ now \in 1..MaxTime
    /\ rwTxn = "none"
    /\ pc = [t \in Tabs |-> "idle"]
    /\ call = [t \in Tabs |-> NoCall]
    /\ ret = [t \in Tabs |-> NoRet]
    /\ lastSaved = [h \in Hashes |-> <<>>]
    /\ appends = [h \in Hashes |-> 0]
    /\ normArg \in {<<e>> : e \in NormalizeInputs}
    /\ normRet = <<>>
    /\ AtCurrentVersion
    /\ NoEnumeration
    /\ NoWorkflow

NextNormalize ==
    \/ Normalize

SpecNormalize == InitNormalize /\ [][NextNormalize]_vars


\* the first open of DB_VERSION 2 over a database that version 1 of the
\* application has written, or over no database at all
InitMigrate ==
    /\ dbVersion \in {0, 1}
    /\ store \in (IF dbVersion = 0 THEN {{}} ELSE V1Stores)
    /\ now = 1
    /\ rwTxn = "none"
    /\ pc = [t \in Tabs |-> "idle"]
    /\ call = [t \in Tabs |-> NoCall]
    /\ ret = [t \in Tabs |-> NoRet]
    /\ lastSaved = [h \in Hashes |-> <<>>]
    /\ appends = [h \in Hashes |-> 0]
    /\ normArg = <<>>
    /\ normRet = <<>>
    /\ upgrade = NoUpgrade
    /\ handles = [t \in Tabs |-> 0]
    /\ txn = [t \in Tabs |-> "none"]
    /\ NoEnumeration
    /\ NoWorkflow

NextMigrate ==
    \/ openDatabase("tabA", "getHistoryCount", 0, <<>>, NoVersion)
    \/ openDatabase_cursor("tabA")
    \/ openDatabase_updateError("tabA")
    \/ openDatabase_onsuccess("tabA")
    \/ request_onsuccess("tabA")
    \/ transaction_oncomplete("tabA")
    \/ Resume("tabA")

SpecMigrate == InitMigrate /\ [][NextMigrate]_vars

\* one tab whose operations open, use and release the database, with
\* requests that succeed or fail
NextHandles ==
    \/ \E e \in HandleInputs :
          openDatabase("tabA", "saveHistoryEntry", e.fileHash, <<e>>, NoVersion)
    \/ \E h \in HashesOf(HandleInputs) :
          \E op \in {"getHistoryEntry", "deleteHistoryEntry"} :
              openDatabase("tabA", op, h, <<>>, NoVersion)
    \/ \E op \in {"getAllHistory", "clearAllHistory", "getHistoryCount"} :
          openDatabase("tabA", op, 0, <<>>, NoVersion)
    \/ \E h \in HashesOf(HandleInputs) : \E v \in VersionInputs("tabA") :
          /\ appends[h] < MaxSummaries
          /\ openDatabase("tabA", "addSummaryVersion", h, <<>>, v)
    \/ request_onsuccess("tabA")
    \/ request_onerror("tabA")
    \/ transaction_oncomplete("tabA")
    \/ Resume("tabA")

SpecHandles == Init /\ [][NextHandles]_vars

\* the cursor loop of getAllHistory applied to the values of one cursor
InitEnumerate ==
    /\ store = {}
    /\ now \in 1..MaxTime
    /\ rwTxn = "none"
    /\ pc = [t \in Tabs |-> "idle"]
    /\ call = [t \in Tabs |-> NoCall]
    /\ ret = [t \in Tabs |-> NoRet]
    /\ lastSaved = [h \in Hashes |-> <<>>]
    /\ appends = [h \in Hashes |-> 0]
    /\ normArg = <<>>
    /\ normRet = <<>>
    /\ AtCurrentVersion
    /\ cursorValues \in EnumerateInputs
    /\ enumerated = <<>>
    /\ NoWorkflow

NextEnumerate ==
    \/ Enumerate

SpecEnumerate == InitEnumerate /\ [][NextEnumerate]_vars


\* one page over an empty store: a file is selected, looked up, decided
\* upon in the dialog and processed, one handler at a time; the dialog is
\* modal, so nothing else is clicked while it is shown
Quiet ==
    /\ \A r \in Runs : fileChange[r].pc = "none"
    /\ submit.pc = "none"

NextWorkflow ==
    \/ \E f \in Files : Quiet /\ ~app.reuseDialogOpen /\ handleFileChange(1, f)
    \/ handleFileChange_getAudioDuration(1)
    \/ handleFileChange_computeFileHash(1)
    \/ handleFileChange_getHistoryEntry(1)
    \/ handleUseCacheFromDialog
    \/ handleReprocessFromDialog
    \/ handleCancelDialog
    \/ Quiet /\ ~app.reuseDialogOpen /\ handleSubmit
    \/ handleSubmit_transcribe
    \/ handleSubmit_summarize
    \/ handleSubmit_history("tabA")
    \/ handleSubmit_enforceStorageLimit("tabA")
    \/ enforceStorageLimit_delete("tabA")
    \/ handleSubmit_loadHistoryCount("tabA")
    \/ handleSubmit_historyErr("tabA")
    \/ handleSubmit_finally("tabA")

SpecWorkflow == Init /\ [][NextWorkflow]_vars


\* a session over a store that an earlier session has left with any number
\* of entries: saves, each followed or not by enforceStorageLimit
RecoverStores == SUBSET {SubmittedEntry(h, h - 1) : h \in Hashes}

InitRecover ==
    /\ store \in RecoverStores
    /\ now = MaxTime
    /\ rwTxn = "none"
    /\ pc = [t \in Tabs |-> "idle"]
    /\ call = [t \in Tabs |-> NoCall]
    /\ ret = [t \in Tabs |-> NoRet]
    /\ lastSaved = [h \in Hashes |-> <<>>]
    /\ appends = [h \in Hashes |-> 0]
    /\ normArg = <<>>
    /\ normRet = <<>>
    /\ AtCurrentVersion
    /\ NoEnumeration
    /\ NoWorkflow

NextRecover ==
    \/ \E h \in Hashes : \E e \in {SubmittedEntry(h, now), FreshEntry(h, now)} :
          saveHistoryEntry("tabA", e)
    \/ \E maxItems \in 1..MaxItems :
          /\ \E h \in Hashes : lastSaved[h] # <<>>
          /\ enforceStorageLimit("tabA", maxItems)
    \/ enforceStorageLimit_delete("tabA")
    \/ Resume("tabA")

SpecRecover == InitRecover /\ [][NextRecover]_vars


\* every operation of one page, tabA, over a database at DB_VERSION or
\* still at version 1; in the second case tabB is a page of version 1 that
\* is closed, or holds a connection in a transaction, or holds the
\* connection a failed request has left open
OldPageStates ==
    {[handles |-> 0, txn |-> "none"], [handles |-> 1, txn |-> "active"],
     [handles |-> 1, txn |-> "none"]}

InitSettle ==
    /\ dbVersion \in {1, DB_VERSION}
    /\ store = IF dbVersion = 1 THEN {V1Record(1, "summary"), V1Record(2, "null")}
                                ELSE {FreshEntry(1, 1), SubmittedEntry(2, 2)}
    /\ now = 1
    /\ rwTxn = "none"
    /\ pc = [t \in Tabs |-> "idle"]
    /\ call = [t \in Tabs |-> NoCall]
    /\ ret = [t \in Tabs |-> NoRet]
    /\ lastSaved = [h \in Hashes |-> <<>>]
    /\ appends = [h \in Hashes |-> 0]
    /\ normArg = <<>>
    /\ normRet = <<>>
    /\ upgrade = NoUpgrade
    /\ \E old \in OldPageStates :
          /\ dbVersion = DB_VERSION => old.handles = 0
          /\ handles = [t \in Tabs |-> IF t = "tabB" THEN old.handles ELSE 0]
          /\ txn = [t \in Tabs |-> IF t = "tabB" THEN old.txn ELSE "none"]
    /\ NoEnumeration
    /\ NoWorkflow

\* the steps the browser takes by itself once an operation is called
SettleSteps ==
    \/ openDatabase_unblocked("tabA")
    \/ openDatabase_cursor("tabA")
    \/ openDatabase_updateError("tabA")
    \/ openDatabase_onsuccess("tabA")
    \/ request_onsuccess("tabA")
    \/ request_onerror("tabA")
    \/ \E t \in Tabs : transaction_oncomplete(t)

NextSettle ==
    \/ \E e \in HandleInputs :
          openDatabase("tabA", "saveHistoryEntry", e.fileHash, <<e>>, NoVersion)
    \/ \E h \in HashesOf(HandleInputs) :
          \E op \in {"getHistoryEntry", "deleteHistoryEntry"} :
              openDatabase("tabA", op, h, <<>>, NoVersion)
    \/ \E op \in {"getAllHistory", "clearAllHistory", "getHistoryCount"} :
          openDatabase("tabA", op, 0, <<>>, NoVersion)
    \/ \E h \in HashesOf(HandleInputs) : \E v \in VersionInputs("tabA") :
          /\ appends[h] < MaxSummaries
          /\ openDatabase("tabA", "addSummaryVersion", h, <<>>, v)
    \/ SettleSteps
    \/ Resume("tabA")

\* the browser delivers the events of a request in the end
SpecSettle == InitSettle /\ [][NextSettle]_vars /\ WF_vars(SettleSteps)


\* one session over a store that starts empty, in which every save is
\* followed by enforceStorageLimit with a capacity that leaves two
\* fingerprints beyond it; the saves reach every store within the capacity
SmallCapacity == MaxItems - 1

NextOvershoot ==
    \/ \E h \in Hashes, p \in Times : handleSubmit_saveHistoryEntry("tabA", SubmittedEntry(h, p))
    \/ /\ pc["tabA"] = "handleSubmit_213"
       /\ EnforceBegin("tabA", SmallCapacity, "handleSubmit")
    \/ enforceStorageLimit_delete("tabA")
    \/ handleSubmit_loadHistoryCount("tabA")
    \/ Resume("tabA")

SpecOvershoot == Init /\ [][NextOvershoot]_vars


\* two pages over one store: tabA runs enforceStorageLimit while tabB saves
NextRace ==
    \/ \E maxItems \in 1..MaxItems : enforceStorageLimit("tabA", maxItems)
    \/ enforceStorageLimit_delete("tabA")
    \/ \E h \in Hashes : saveHistoryEntry("tabB", SubmittedEntry(h, now))
    \/ \E t \in Tabs : Resume(t)

SpecRace == InitRecover /\ [][NextRace]_vars


\* one page whose handlers overlap as the controls allow: the file input
\* and the submit button are disabled only while handleSubmit runs, so a
\* file can be selected, and the form submitted, while earlier runs of
\* handleFileChange are at an await; the dialog, once rendered, covers both.
\* The store holds what an earlier session has saved for c.mp3 and d.mp3,
\* and the session is followed up to the end of its first save.
OverlapFiles ==
    {f \in Files : f.name \in {"a.mp3", "c.mp3"}}

\* the record an earlier handleSubmit has saved for the file
SavedEarlier(f) ==
    historyEntry([file |-> <<f>>,
                  currentFileHash |-> computeFileHash(f),
                  originalStats |-> <<StatsOf(f)>>,
                  transcript |-> TranscriptOf(f),
                  summary |-> "S1"], 0)

OverlapStore ==
    {SavedEarlier(f) : f \in {g \in Files : g.name \in {"c.mp3", "d.mp3"}}}

InitOverlap ==
    /\ store = OverlapStore
    /\ now = 1
    /\ rwTxn = "none"
    /\ pc = [t \in Tabs |-> "idle"]
    /\ call = [t \in Tabs |-> NoCall]
    /\ ret = [t \in Tabs |-> NoRet]
    /\ lastSaved = [h \in Hashes |-> <<>>]
    /\ appends = [h \in Hashes |-> 0]
    /\ normArg = <<>>
    /\ normRet = <<>>
    /\ AtCurrentVersion
    /\ NoEnumeration
    /\ NoWorkflow

\* the invocations of handleFileChange take the lowest free run
FreeRun(r) ==
    /\ fileChange[r].pc = "none"
    /\ \A q \in Runs : q < r => fileChange[q].pc # "none"

NextOverlap ==
    \/ \E r \in Runs, f \in OverlapFiles :
          /\ store = OverlapStore
          /\ submit.pc = "none"
          /\ ~DialogShown
          /\ FreeRun(r)
          /\ handleFileChange(r, f)
    \/ \E r \in Runs : handleFileChange_getAudioDuration(r)
    \/ \E r \in Runs : handleFileChange_computeFileHash(r)
    \/ \E r \in Runs : handleFileChange_getHistoryEntry(r)
    \/ handleUseCacheFromDialog
    \/ handleReprocessFromDialog
    \/ handleCancelDialog
    \/ store = OverlapStore /\ ~DialogShown /\ handleSubmit
    \/ handleSubmit_transcribe
    \/ handleSubmit_summarize
    \/ handleSubmit_history("tabA")
    \/ handleSubmit_enforceStorageLimit("tabA")
    \/ enforceStorageLimit_delete("tabA")
    \/ handleSubmit_loadHistoryCount("tabA")
    \/ handleSubmit_historyErr("tabA")
    \/ handleSubmit_finally("tabA")

SpecOverlap == InitOverlap /\ [][NextOverlap]_vars


(***************************************************************************)
(* Helpers of the properties.                                              *)
(***************************************************************************)
Min(a, b) == IF a <= b THEN a ELSE b

\* the items of a summaries field read as `entry.summaries || []`
ItemsOf(entry) ==
    IF entry.summaries.kind = "array" THEN entry.summaries.items ELSE <<>>

Range(seq) == {seq[i] : i \in 1..Len(seq)}

\* the keys of the store in recency order
RecencyOrder(objectStore) ==
    LET cursor == IndexCursor(objectStore)
    IN  [i \in 1..Len(cursor) |-> cursor[i].fileHash]

(***************************************************************************)
(* C1: eviction bound.  Once the enforceStorageLimit that follows a save   *)
(* has returned, the store holds at most the capacity, namely as many      *)
(* entries as min(capacity, entries written and not deleted), the retained *)
(* records are records that were written, unchanged, and no evicted entry  *)
(* is newer than a retained one.                                           *)
(***************************************************************************)
C1_EvictionBound ==
    \A t \in Tabs :
        pc[t] = "handleSubmit_214" =>
            LET written == Range(call[t].allEntries)
                evicted == {w \in written : w.fileHash \notin HashesOf(store)}
            IN  /\ Count(store) <= MaxItems
                /\ Count(store) = Min(MaxItems, Cardinality(written))
                /\ HashesOf(store) \subseteq HashesOf(written)
                /\ store = {lastSaved[h][1] : h \in {k \in Hashes : lastSaved[k] # <<>>}}
                /\ \A r \in store : \E w \in written :
                      w.fileHash = r.fileHash /\ w.processedAt = r.processedAt
                /\ \A w \in evicted : \A r \in store : w.processedAt <= r.processedAt

\* capacity + 1 entries were written and the strictly oldest one was evicted
C1_Witness ==
    /\ pc["tabA"] = "handleSubmit_214"
    /\ Len(call["tabA"].allEntries) = MaxItems + 1
    /\ Count(store) = MaxItems
    /\ \E w \in Range(call["tabA"].allEntries) :
          /\ w.fileHash \notin HashesOf(store)
          /\ \A r \in store : w.processedAt < r.processedAt

OnePerFileHash ==
    \A r1, r2 \in store : r1.fileHash = r2.fileHash => r1 = r2

SaveStep(t) ==
    /\ pc[t] = "idle"
    /\ pc'[t] = "settled"
    /\ ret'[t].op = "saveHistoryEntry"

C3_UniqueFullReplace ==
    /\ []OnePerFileHash
    /\ [][\A t \in Tabs : SaveStep(t) =>
            LET e == call'[t].entry[1]
            IN  /\ {r \in store' : r.fileHash = e.fileHash} = {e}
                /\ Count(store') = IF e.fileHash \in HashesOf(store)
                                   THEN Count(store) ELSE Count(store) + 1
                /\ {r \in store' : r.fileHash # e.fileHash}
                      = {r \in store : r.fileHash # e.fileHash}]_vars

\* a save replaced a record to which a summary version had been appended:
\* the stored record is the saved one and holds none of the old summaries
C3_Witness ==
    /\ pc["tabA"] = "settled"
    /\ ret["tabA"].op = "saveHistoryEntry"
    /\ pc["tabB"] = "settled"
    /\ ret["tabB"].op = "addSummaryVersion"
    /\ ret["tabB"].status = "resolved"
    /\ call["tabB"].fileHash = call["tabA"].fileHash
    /\ Get(store, call["tabA"].fileHash) = call["tabA"].entry
    /\ ItemsOf(call["tabA"].entry[1]) = <<>>
    /\ Count(store) = 2

(***************************************************************************)
(* C4: upsert identity.  A getHistoryEntry(h) that settles while the last  *)
(* write of h is saveHistoryEntry(e) resolves with                         *)
(* normalizeHistoryEntry(e).                                               *)
(***************************************************************************)
C4_UpsertIdentity ==
    \A t \in Tabs :
        (pc[t] = "settled" /\ ret[t].op = "getHistoryEntry") =>
            LET h == call[t].fileHash
            IN  (lastSaved[h] # <<>> /\ appends[h] = 0) =>
                    /\ ret[t].status = "resolved"
                    /\ ret[t].entry = <<normalizeHistoryEntry(lastSaved[h][1], now)>>

\* a record saved in the legacy shape was read back in the current shape
C4_Witness ==
    \E t \in Tabs :
        /\ pc[t] = "settled"
        /\ ret[t].op = "getHistoryEntry"
        /\ lastSaved[call[t].fileHash] # <<>>
        /\ lastSaved[call[t].fileHash][1].summaries.kind = "undefined"
        /\ lastSaved[call[t].fileHash][1].summary = "S1"
        /\ ret[t].entry # <<>>
        /\ ret[t].entry[1].summaries.kind = "array"
        /\ Len(ret[t].entry[1].summaries.items) = 1
        /\ ret[t].entry[1].summary = "undefined"


(***************************************************************************)
(* C5: version monotonicity.  After n resolved addSummaryVersion calls on  *)
(* an entry saved with an empty summaries array, the stored entry has n    *)
(* summaries and the i-th of them (counted from 1) has version i.          *)
(***************************************************************************)
C5_VersionMonotonicity ==
    \A h \in Hashes :
        (/\ lastSaved[h] # <<>>
         /\ lastSaved[h][1].summaries = ArrayOf(<<>>)
         /\ Get(store, h) # <<>>) =>
            LET items == ItemsOf(Get(store, h)[1])
            IN  /\ Len(items) = appends[h]
                /\ \A i \in 1..Len(items) : items[i].version = i

(***************************************************************************)
(* C6: version assignment.  The revision a resolved addSummaryVersion      *)
(* stores carries the version (summaries already in the entry) + 1, so     *)
(* the versions of the stored entry increase strictly.                     *)
(***************************************************************************)
AppendStep(t) ==
    /\ pc[t] = "addSummaryVersion_put"
    /\ pc'[t] = "settled"

C6_VersionAssignment ==
    [][\A t \in Tabs : AppendStep(t) =>
        LET before == ItemsOf(Get(store, call[t].fileHash)[1])
            after == ItemsOf(Get(store', call[t].fileHash)[1])
        IN  /\ after[Len(after)].version = Len(before) + 1
            /\ \A i, j \in 1..Len(after) :
                  i < j => after[i].version < after[j].version]_vars

(***************************************************************************)
(* C7: concurrent appends.  As stated (the get and the put of one append   *)
(* are not atomic with respect to another append, so that an update can be *)
(* lost): while one append is between its get and its put, the get of an   *)
(* append another tab has issued for the same key can run.                 *)
(***************************************************************************)
C7_LostUpdateRace ==
    \A a, b \in Tabs :
        (/\ a # b
         /\ pc[a] = "addSummaryVersion_put"
         /\ pc[b] = "addSummaryVersion_get"
         /\ call[a].fileHash = call[b].fileHash) =>
            ENABLED addSummaryVersion_get(b)

\* C7 as amended: the get and the put of an append run in one readwrite
\* transaction, no two appends are between their get and their put at once,
\* and every resolved append is in the stored summaries: no update is lost.
C7_AppendsSerialized ==
    /\ [](\A a, b \in Tabs :
            a # b => ~(pc[a] = "addSummaryVersion_put" /\ pc[b] = "addSummaryVersion_put"))
    /\ [](\A h \in Hashes :
            (lastSaved[h] # <<>> /\ Get(store, h) # <<>>) =>
                Len(ItemsOf(Get(store, h)[1])) = Len(ItemsOf(lastSaved[h][1])) + appends[h])
    /\ [][\A t \in Tabs : AppendStep(t) =>
            LET before == Get(store, call[t].fileHash)
                after == Get(store', call[t].fileHash)
            IN  /\ before # <<>>
                /\ after # <<>>
                /\ Range(ItemsOf(before[1])) \subseteq Range(ItemsOf(after[1]))
                /\ call[t].summaryVersion \in Range(ItemsOf(after[1]))]_vars

\* both tabs appended to one entry and both revisions are stored
C7_Witness ==
    /\ pc["tabA"] = "settled" /\ ret["tabA"].op = "addSummaryVersion"
    /\ pc["tabB"] = "settled" /\ ret["tabB"].op = "addSummaryVersion"
    /\ ret["tabA"].status = "resolved" /\ ret["tabB"].status = "resolved"
    /\ call["tabA"].fileHash = call["tabB"].fileHash
    /\ appends[call["tabA"].fileHash] = 2
    /\ Get(store, call["tabA"].fileHash) # <<>>
    /\ Len(ItemsOf(Get(store, call["tabA"].fileHash)[1])) = 2
    /\ call["tabB"].entry # <<>>
    /\ call["tabA"].summaryVersion \in Range(ItemsOf(call["tabB"].entry[1]))

(***************************************************************************)
(* C8: append to an unknown key.  The get of an addSummaryVersion that     *)
(* finds no record rejects with 'History entry not found' and leaves the   *)
(* store as it is; the rejected call does nothing more.                    *)
(***************************************************************************)
C8_AppendUnknownKey ==
    [][\A t \in Tabs :
        /\ (/\ pc[t] = "addSummaryVersion_get"
            /\ pc'[t] # pc[t]
            /\ Get(store, call[t].fileHash) = <<>>) =>
               /\ pc'[t] = "settled"
               /\ ret'[t] = Rejected("addSummaryVersion", "History entry not found")
               /\ store' = store
        /\ (/\ pc[t] = "settled"
            /\ ret[t].status = "rejected"
            /\ pc'[t] # pc[t]) =>
               /\ pc'[t] = "idle"
               /\ store' = store]_vars

\* an append was rejected for a key that is not in the (non-empty) store
C8_Witness ==
    \E t \in Tabs :
        /\ pc[t] = "settled"
        /\ ret[t] = Rejected("addSummaryVersion", "History entry not found")
        /\ call[t].fileHash \notin HashesOf(store)
        /\ store # {}

(***************************************************************************)
(* C9: frame of a version append.  The put of a resolved addSummaryVersion *)
(* adds the revision as the last element of the entry's summaries, keeps   *)
(* the earlier revisions and their order, keeps fileHash, fileName,        *)
(* fileSize, duration, processedAt and transcript of the entry, and leaves *)
(* the other entries, the count and the recency order unchanged.           *)
(***************************************************************************)
C9_AppendFrame ==
    [][\A t \in Tabs : AppendStep(t) =>
        LET h == call[t].fileHash
            old == Get(store, h)
            new == Get(store', h)
        IN  /\ old # <<>>
            /\ new # <<>>
            /\ ret'[t].status = "resolved"
            /\ ItemsOf(new[1]) = Append(ItemsOf(old[1]), call[t].summaryVersion)
            /\ new[1].fileHash = old[1].fileHash
            /\ new[1].fileName = old[1].fileName
            /\ new[1].fileSize = old[1].fileSize
            /\ new[1].duration = old[1].duration
            /\ new[1].processedAt = old[1].processedAt
            /\ new[1].transcript = old[1].transcript
            /\ {r \in store' : r.fileHash # h} = {r \in store : r.fileHash # h}
            /\ Count(store') = Count(store)
            /\ RecencyOrder(store') = RecencyOrder(store)]_vars

\* a second revision was appended to one of two stored entries
C9_Witness ==
    \E t \in Tabs :
        /\ pc[t] = "settled"
        /\ ret[t].op = "addSummaryVersion"
        /\ ret[t].status = "resolved"
        /\ Count(store) = 2
        /\ Get(store, call[t].fileHash) # <<>>
        /\ Len(ItemsOf(Get(store, call[t].fileHash)[1])) = 2
        /\ ItemsOf(Get(store, call[t].fileHash)[1])[2] = call[t].summaryVersion


(***************************************************************************)
(* C10: normalizer result.  As stated: for a record without summaries the  *)
(* result has the same other fields, no summary field, and summaries       *)
(* [{summary, generatedAt: processedAt, version: 1}] when the legacy       *)
(* summary is present and non-null, [] otherwise.                          *)
(***************************************************************************)
SameOtherFields(e, r) ==
    /\ r.fileHash = e.fileHash
    /\ r.fileName = e.fileName
    /\ r.fileSize = e.fileSize
    /\ r.duration = e.duration
    /\ r.processedAt = e.processedAt
    /\ r.transcript = e.transcript
    /\ r.metadata = e.metadata

C10_NormalizerResult ==
    (normRet # <<>> /\ normArg[1].summaries.kind = "undefined") =>
        LET e == normArg[1]
            r == normRet[1]
        IN  /\ SameOtherFields(e, r)
            /\ r.summary = "undefined"
            /\ r.summaries.kind = "array"
            /\ r.summaries.items =
                  IF e.summary \in Summaries
                  THEN <<SummaryVersion(e.summary, e.processedAt, 1)>>
                  ELSE <<>>

\* C10 as amended: generatedAt is the record's processedAt when that is
\* truthy (not 0), and otherwise the time at which the record is normalized.
C10_NormalizerResultFallback ==
    (normRet # <<>> /\ normArg[1].summaries.kind = "undefined") =>
        LET e == normArg[1]
            r == normRet[1]
        IN  /\ SameOtherFields(e, r)
            /\ r.summary = "undefined"
            /\ r.summaries.kind = "array"
            /\ r.summaries.items =
                  IF e.summary \in Summaries
                  THEN <<SummaryVersion(e.summary,
                           IF e.processedAt # 0 THEN e.processedAt ELSE now, 1)>>
                  ELSE <<>>

\* a legacy record with a summary and processedAt 0 was normalized
C10_Witness ==
    /\ normRet # <<>>
    /\ normArg[1].summaries.kind = "undefined"
    /\ normArg[1].summary = "S1"
    /\ normArg[1].processedAt = 0
    /\ normRet[1].summary = "undefined"
    /\ Len(normRet[1].summaries.items) = 1
    /\ normRet[1].summaries.items[1].generatedAt = now


(***************************************************************************)
(* C11: open-time migration result.  As stated: once openDatabase has      *)
(* upgraded a version-1 store, every record that had no summaries is       *)
(* stored with a summaries array and without the summary field: the list   *)
(* {summary, generatedAt = processedAt, version = 1} for a non-null legacy *)
(* summary, the empty list for a legacy summary that is null or absent.    *)
(***************************************************************************)
\* openDatabase has just resolved after the upgrade of a version-1 store
Upgraded ==
    \E t \in Tabs : pc[t] = "request" /\ upgrade.oldVersion = 1

C12_MigrationIdempotent ==
    Upgraded =>
        /\ \A r \in upgrade.snapshot :
              /\ MigrateRecord(MigrateRecord(r)) = MigrateRecord(r)
              /\ r.summaries.kind = "array" => r \in store
              /\ (r.summaries.kind = "undefined" /\ r.summary # "undefined") =>
                    /\ r \notin store
                    /\ Get(store, r.fileHash)[1].summaries.kind = "array"
        /\ \A m \in store : MigrateRecord(m) = m
        /\ HashesOf(store) = HashesOf(upgrade.snapshot)

\* a store with a record of the current shape and a legacy record was upgraded
C12_Witness ==
    /\ Upgraded
    /\ \E a, b \in upgrade.snapshot :
          /\ a.summaries.kind = "array" /\ a \in store
          /\ b.summaries.kind = "undefined" /\ b.summary = "S1" /\ b \notin store
          /\ MigrateRecord(b) \in store

(***************************************************************************)
(* C13: normalization idempotence.  normalizeHistoryEntry returns an entry *)
(* that has a summaries field unchanged, so that normalizing its own       *)
(* result, at any later time, returns that result.                         *)
(***************************************************************************)
C13_NormalizeIdempotent ==
    normRet # <<>> =>
        /\ normArg[1].summaries.kind # "undefined" => normRet[1] = normArg[1]
        /\ \A d \in Times : normalizeHistoryEntry(normRet[1], d) = normRet[1]

\* an entry with a one-element summaries array was normalized
C13_Witness ==
    /\ normRet # <<>>
    /\ normArg[1].summaries.kind = "array"
    /\ Len(normArg[1].summaries.items) = 1
    /\ normRet = normArg

(***************************************************************************)
(* C14: per-record migration failure isolation.  As stated: when the       *)
(* update of one record has failed during the upgrade, the open still      *)
(* succeeds and the other records are migrated.                            *)
(***************************************************************************)
C14_FailureIsolation ==
    \A t \in Tabs :
        (pc[t] = "settled" /\ upgrade.failedKey # 0) =>
            /\ ret[t].status = "resolved"
            /\ \A r \in upgrade.snapshot :
                  r.fileHash # upgrade.failedKey => MigrateRecord(r) \in store


(***************************************************************************)
(* C15: getAllHistory ordering and completeness.  The resolved list holds  *)
(* every stored entry exactly once, normalized, newest first.              *)
(***************************************************************************)
C15_AllHistoryComplete ==
    \A t \in Tabs :
        (pc[t] = "settled" /\ ret[t].op = "getAllHistory") =>
            LET listed == ret[t].entries
            IN  /\ ret[t].status = "resolved"
                /\ Len(listed) = Cardinality(store)
                /\ \A r \in store :
                      /\ Cardinality({i \in 1..Len(listed) :
                                        listed[i].fileHash = r.fileHash}) = 1
                      /\ normalizeHistoryEntry(r, now) \in Range(listed)
                /\ \A i, j \in 1..Len(listed) :
                      i < j => listed[i].processedAt >= listed[j].processedAt

\* a store of three entries, one of them of the legacy shape, was listed
C15_Witness ==
    /\ pc["tabA"] = "settled"
    /\ ret["tabA"].op = "getAllHistory"
    /\ Len(ret["tabA"].entries) = 3
    /\ ret["tabA"].entries[1].processedAt > ret["tabA"].entries[3].processedAt
    /\ \E r \in store : r.summaries.kind = "undefined"

(***************************************************************************)
(* C16: enumeration tolerates bad records.  A cursor value whose           *)
(* normalization throws is skipped, and the call resolves with the other   *)
(* entries, normalized, in the order of the cursor.                        *)
(***************************************************************************)
Usable(value) == value # <<>>

C16_BadRecordsSkipped ==
    enumerated # <<>> =>
        LET good == SelectSeq(cursorValues, Usable)
        IN  /\ enumerated[1].status = "resolved"
            /\ enumerated[1].entries =
                  [i \in 1..Len(good) |-> normalizeHistoryEntry(good[i][1], now)]

\* a cursor delivered an unusable value between two records
C16_Witness ==
    /\ enumerated # <<>>
    /\ Len(cursorValues) = 3
    /\ cursorValues[1] # <<>>
    /\ cursorValues[2] = <<>>
    /\ cursorValues[3] # <<>>
    /\ Len(enumerated[1].entries) = 2

DeleteStep(t) ==
    /\ pc[t] = "idle"
    /\ pc'[t] = "settled"
    /\ call'[t].op = "deleteHistoryEntry"

C18_DeleteFrame ==
    [][\A t \in Tabs : DeleteStep(t) =>
        LET h == call'[t].fileHash
        IN  /\ ret'[t].status = "resolved"
            /\ h \notin HashesOf(store')
            /\ \A r \in store : r.fileHash # h => r \in store'
            /\ store' \subseteq store
            /\ h \notin HashesOf(store) => store' = store]_vars

\* a delete has resolved and another entry is still stored
C18_Witness ==
    /\ pc["tabA"] = "settled"
    /\ ret["tabA"].op = "deleteHistoryEntry"
    /\ ret["tabA"].status = "resolved"
    /\ call["tabA"].fileHash = 2
    /\ HashesOf(store) = {1, 3}

(***************************************************************************)
(* C19: clear and count.  getHistoryCount resolves with the number of      *)
(* stored entries; once clearAllHistory has resolved the store is empty,   *)
(* so that the count is 0 and the list of getAllHistory is empty.          *)
(***************************************************************************)
C19_ClearAndCount ==
    \A t \in Tabs :
        pc[t] = "settled" =>
            /\ ret[t].op = "getHistoryCount" =>
                  /\ ret[t].status = "resolved"
                  /\ ret[t].count = Cardinality(HashesOf(store))
            /\ ret[t].op = "clearAllHistory" =>
                  /\ ret[t].status = "resolved"
                  /\ Count(store) = 0
                  /\ AllHistory(store, now) = <<>>

\* a store of two entries was counted
C19_Witness ==
    /\ pc["tabA"] = "settled"
    /\ ret["tabA"].op = "getHistoryCount"
    /\ ret["tabA"].count = 2
    /\ Cardinality(store) = 2

(***************************************************************************)
(* C20: scoped release of the store handle.  As stated: once an operation  *)
(* has settled and its transaction has finished, by completing or by       *)
(* aborting, the tab holds no open database handle.                        *)
(***************************************************************************)
C20_HandleReleased ==
    \A t \in Tabs :
        (pc[t] \in {"settled", "idle"} /\ txn[t] = "none") => handles[t] = 0

(***************************************************************************)
(* C21: dedup by content.  Files with identical bytes, whatever their      *)
(* names, never have more than one stored entry between them, and each     *)
(* write of handleSubmit leaves exactly one entry under the fingerprint of *)
(* the bytes of the file processed, carrying the name of that file: the    *)
(* name of the upload stored last.                                         *)
(***************************************************************************)
\* handleSubmit's saveHistoryEntry succeeds
HistoryWrite ==
    /\ submit.pc = "history"
    /\ pc["tabA"] = "idle"
    /\ pc'["tabA"] = "handleSubmit_213"

C21_DedupByContent ==
    /\ [](\A f1, f2 \in Files : f1.content = f2.content =>
              Cardinality({r \in store : r.fileName \in {f1.name, f2.name}}) <= 1)
    /\ [][HistoryWrite =>
            LET f == submit.file[1]
            IN  \E r \in store' :
                  /\ {x \in store' : x.fileHash = computeFileHash(f)
                                       \/ x.transcript = TranscriptOf(f)} = {r}
                  /\ r.fileName = f.name]_vars

\* b.mp3 was processed over an entry of the same bytes and is the one entry
\* of fingerprint 1
C21_Witness ==
    /\ decision = "reprocess"
    /\ app.file = <<[name |-> "b.mp3", content |-> "X"]>>
    /\ \E r \in store : r.fileHash = 1 /\ r.fileName = "b.mp3"
    /\ \A r \in store : r.fileName # "a.mp3"

(***************************************************************************)
(* C22: outcome of the lookup.  When the getHistoryEntry of a file         *)
(* selection succeeds, either the store has no entry of the fingerprint    *)
(* and the page is ready to process (the file selected, no reuse dialog,   *)
(* cachedEntry null), or it has one and the page awaits the decision (the  *)
(* reuse dialog open, cachedEntry the stored entry of the fingerprint).    *)
(***************************************************************************)
\* run r of handleFileChange returns after a lookup that succeeded
LookupSucceeds(r) ==
    /\ fileChange[r].pc = "getHistoryEntry"
    /\ fileChange'[r].pc = "none"
    /\ app'.error = "null"

C22_LookupOutcome ==
    [][\A r \in Runs : LookupSucceeds(r) =>
        LET stored == Get(store, computeFileHash(fileChange[r].selectedFile[1]))
        IN  /\ app'.file = fileChange[r].selectedFile
            /\ IF stored = <<>>
               THEN /\ ~app'.reuseDialogOpen
                    /\ app'.cachedEntry = <<>>
               ELSE /\ app'.reuseDialogOpen
                    /\ app'.cachedEntry = stored]_vars

\* the dialog offers the stored entry of the file selected
C22_Witness ==
    /\ Quiet
    /\ DialogShown
    /\ app.file # <<>>
    /\ app.cachedEntry[1] \in store
    /\ app.cachedEntry[1].fileHash = computeFileHash(app.file[1])

(***************************************************************************)
(* C23: Reuse.  Pressing Reuse makes the transcript and the summary of the *)
(* cached entry, which is the stored entry, the current results and closes *)
(* the dialog without touching the store; from then on, until a file is    *)
(* selected, no request to transcribe or summarize is sent, nothing is     *)
(* written to the store and the results stay.                              *)
(***************************************************************************)
UseCacheStep ==
    /\ DialogShown
    /\ decision' = "reuse"

C23_Reuse ==
    [][/\ UseCacheStep =>
            /\ app.cachedEntry[1] \in store
            /\ app'.transcriptData = app.cachedEntry[1].transcript
            /\ app'.summaryData = app.cachedEntry[1].summary
            /\ app'.shouldUseCache
            /\ ~app'.reuseDialogOpen
            /\ store' = store
       /\ (app.shouldUseCache /\ app'.shouldUseCache) =>
            /\ submit'.pc = "none"
            /\ store' = store
            /\ app'.transcriptData = app.transcriptData
            /\ app'.summaryData = app.summaryData]_vars

\* the results of a.mp3's bytes were taken from the cache
C23_Witness ==
    /\ decision = "reuse"
    /\ app.shouldUseCache
    /\ app.file = <<>>
    /\ app.transcriptData = "T1"
    /\ app.summaryData = "S1"
    /\ \E r \in store : r.transcript = "T1" /\ r.summary = "S1"

(***************************************************************************)
(* C24: Reprocess.  Pressing Reprocess leaves the file, its stats and its  *)
(* fingerprint selected, clears cachedEntry and closes the dialog, which   *)
(* is the state a lookup that found nothing leaves, and changes nothing in *)
(* the store; the write after processing replaces the entry of the         *)
(* fingerprint, so that the number of entries does not grow.               *)
(***************************************************************************)
ReprocessStep ==
    /\ DialogShown
    /\ decision' = "reprocess"

C24_Reprocess ==
    [][/\ ReprocessStep =>
            /\ app' = [app EXCEPT !.cachedEntry = <<>>, !.reuseDialogOpen = FALSE]
            /\ app'.file # <<>>
            /\ app'.currentFileHash = computeFileHash(app'.file[1])
            /\ ~app'.shouldUseCache
            /\ store' = store
       /\ (HistoryWrite /\ Get(store, submit.currentFileHash) # <<>>) =>
            /\ Count(store') = Count(store)
            /\ Get(store', submit.currentFileHash) = <<historyEntry(submit, now)>>]_vars

\* a file was processed again: its entry carries its name and the store
\* still holds one entry
C24_Witness ==
    /\ decision = "reprocess"
    /\ Quiet
    /\ app.transcriptData # "null"
    /\ app.file # <<>>
    /\ Count(store) = 1
    /\ app.historyCount = 1
    /\ \A r \in store : r.fileName = app.file[1].name
                          /\ r.fileHash = app.currentFileHash

(***************************************************************************)
(* C25: Cancel.  Pressing Cancel discards the file, its stats, its         *)
(* fingerprint and the cached entry and closes the dialog, which leaves    *)
(* the page as it was before any file was selected, and changes nothing    *)
(* in the store.                                                           *)
(***************************************************************************)
CancelStep ==
    /\ DialogShown
    /\ decision' = "cancel"

C25_Cancel ==
    [][CancelStep =>
        /\ app' = [NoApp EXCEPT !.historyCount = app.historyCount]
        /\ Quiet'
        /\ UNCHANGED historyVars]_vars

\* the selection of a file that has a stored entry was cancelled
C25_Witness ==
    /\ decision = "cancel"
    /\ app.file = <<>>
    /\ app.currentFileHash = 0
    /\ ~app.reuseDialogOpen
    /\ store # {}

(***************************************************************************)
(* C26: graceful degradation.  A failure of the history store never blocks *)
(* or fails the processing of a file: when handleFileChange has failed,    *)
(* the lookup included, the file stays selected and can be submitted, and  *)
(* when the save, the eviction or the count after processing fails, the    *)
(* transcript and the summary stay presented and no error is shown.        *)
(***************************************************************************)
\* the history block of handleSubmit ends in its catch
HistoryErrStep ==
    /\ submit.pc = "history"
    /\ submit'.pc = "none"
    /\ pc["tabA"] # "settled"

C26_GracefulDegradation ==
    /\ []((Quiet /\ decision = "failed") =>
              /\ app.file # <<>>
              /\ ~app.shouldUseCache
              /\ ~app.reuseDialogOpen
              /\ ENABLED handleSubmit)
    /\ [][HistoryErrStep =>
            /\ app' = app
            /\ app.transcriptData = submit.transcript
            /\ app.transcriptData # "null"
            /\ app.summaryData = submit.summary
            /\ app.error = "null"]_vars

\* the lookup of a file failed, the file was processed, and its save failed:
\* the results are shown and nothing is stored
C26_Witness ==
    /\ decision = "failed"
    /\ Quiet
    /\ app.currentFileHash # 0
    /\ app.transcriptData # "null"
    /\ app.summaryData = "S1"
    /\ app.error = "null"
    /\ store = {}

(***************************************************************************)
(* C27: recovery from a store over its capacity.  Whatever number of       *)
(* entries an earlier session has left in the store, once an               *)
(* enforceStorageLimit(capacity) that follows a save has returned, the     *)
(* store holds at most capacity entries.                                   *)
(***************************************************************************)
C27_Recovery ==
    \A t \in Tabs :
        (pc[t] = "settled" /\ ret[t].op = "enforceStorageLimit") =>
            /\ ret[t].status = "resolved"
            /\ Count(store) <= call[t].maxItems
            /\ Count(store) = Min(call[t].maxItems, Len(call[t].allEntries))

\* a store two entries over the capacity was brought back to it after a save
C27_Witness ==
    /\ pc["tabA"] = "settled"
    /\ ret["tabA"].op = "enforceStorageLimit"
    /\ Len(call["tabA"].allEntries) >= call["tabA"].maxItems + 2
    /\ Count(store) = call["tabA"].maxItems
    /\ \E h \in Hashes : lastSaved[h] # <<>>

(***************************************************************************)
(* C28: writes are normalized before they are stored.  As stated: after    *)
(* any sequence of saves, appends and deletes on a store opened at the     *)
(* current version, every stored record has a summaries array and no       *)
(* legacy field `summary`.                                                 *)
(***************************************************************************)
C28_StoredShapeCurrent ==
    \A r \in store :
        /\ r.summaries.kind = "array"
        /\ r.summary = "undefined"

LatestModel(r) ==
    LET items == ItemsOf(normalizeHistoryEntry(r, now))
    IN  IF items = <<>> THEN "null" ELSE llm_model(items[Len(items)].summary)

C30_LlmModelTracksLatest ==
    /\ [](\A r \in store : r.metadata.llmModel = LatestModel(r))
    /\ [][\A t \in Tabs : AppendStep(t) =>
            Get(store', call[t].fileHash)[1].metadata.llmModel =
                llm_model(call[t].summaryVersion.summary)]_vars

\* an entry with two revisions carries the model of the second
C30_Witness ==
    \E r \in store :
        /\ Len(ItemsOf(r)) = 2
        /\ ItemsOf(r)[1].summary = "S1"
        /\ ItemsOf(r)[2].summary = "S2"
        /\ r.metadata.llmModel = "gpt-b"

(***************************************************************************)
(* C31: every store operation settles.  As stated: a call of an operation, *)
(* from its openDatabase on, leads to a state in which its promise is      *)
(* resolved or rejected, whatever the other pages do.                      *)
(***************************************************************************)
C31_EveryCallSettles ==
    \A t \in Tabs : (pc[t] # "idle") ~> (pc[t] = "settled")

(***************************************************************************)
(* C32: entry creation follows transcription.  The workflow changes the    *)
(* store only in the history block of a handleSubmit whose transcription   *)
(* has succeeded; a failed transcription ends the handler with the store   *)
(* unchanged; when the summarization fails and the fingerprint and the     *)
(* stats of the file are known, the history block still runs, and the      *)
(* record it writes carries the transcript and null for the summary.       *)
(***************************************************************************)
TranscribeFails ==
    /\ submit.pc = "transcribe"
    /\ submit'.pc = "none"

SummarizeFails ==
    /\ submit.pc = "summarize"
    /\ app'.summaryError # "null"

C32_WriteFollowsTranscription ==
    [][/\ store' # store =>
            /\ submit.pc = "history"
            /\ submit.transcript # "null"
            /\ submit.transcript = TranscriptOf(submit.file[1])
       /\ TranscribeFails =>
            /\ store' = store
            /\ submit' = NoSubmit
            /\ app'.error # "null"
       /\ (SummarizeFails /\ submit.currentFileHash # 0 /\ submit.originalStats # <<>>) =>
            /\ submit'.pc = "history"
            /\ submit'.summary = "null"
       /\ HistoryWrite =>
            LET r == Get(store', submit.currentFileHash)[1]
            IN  /\ r.transcript = submit.transcript
                /\ r.summary = submit.summary
                /\ r.summaries = UndefinedSummaries]_vars

\* a file whose summarization failed is stored with its transcript and
\* without a summary
C32_Witness ==
    /\ Quiet
    /\ app.summaryError # "null"
    /\ app.transcriptData = "T1"
    /\ \E r \in store : r.transcript = "T1" /\ r.summary = "null"

(***************************************************************************)
(* C33: eviction deletes only the surplus.  When enforceStorageLimit has   *)
(* returned in a session of its own, the entries it found are all still    *)
(* stored if they were at most capacity; otherwise exactly their number    *)
(* less capacity are gone, and none of those had a processedAt larger than *)
(* that of an entry that is retained.                                      *)
(***************************************************************************)
\* the entries of the snapshot that are no longer stored
Evicted(t) ==
    {e \in Range(call[t].allEntries) : Get(store, e.fileHash) = <<>>}

C33_OnlyTheSurplus ==
    \A t \in Tabs :
        (pc[t] = "settled" /\ ret[t].op = "enforceStorageLimit") =>
            LET found == Len(call[t].allEntries)
                capacity == call[t].maxItems
            IN  /\ found <= capacity => Evicted(t) = {}
                /\ found > capacity => Cardinality(Evicted(t)) = found - capacity
                /\ \A e \in Evicted(t) : \A r \in store : e.processedAt <= r.processedAt
                /\ HashesOf(store) \subseteq HashesOf(Range(call[t].allEntries))

\* two entries were evicted, both older than the one retained
C33_Witness ==
    /\ pc["tabA"] = "settled"
    /\ ret["tabA"].op = "enforceStorageLimit"
    /\ Cardinality(Evicted("tabA")) = 2
    /\ \A e \in Evicted("tabA") : \A r \in store : e.processedAt < r.processedAt

Newest(objectStore, maxItems) ==
    LET order == RecencyOrder(objectStore)
    IN  Range(SubSeq(order, 1, Min(maxItems, Len(order))))

\* a pass of the loop of enforceStorageLimit removes a stored entry
EvictStep(t) ==
    /\ pc[t] = "enforceStorageLimit_delete"
    /\ call'[t].entriesToDelete # call[t].entriesToDelete
    /\ Get(store, Head(call[t].entriesToDelete).fileHash) # <<>>

C35_EvictsOnlyOld ==
    [][\A t \in Tabs :
          EvictStep(t) =>
              Head(call[t].entriesToDelete).fileHash \notin Newest(store, call[t].maxItems)]_vars

(***************************************************************************)
(* C36: the saved key matches the saved content.  Whenever handleSubmit    *)
(* saves an entry, the fileHash of the entry is the fingerprint of the     *)
(* file whose name and transcript it carries, also when a second file is   *)
(* selected while the first run of handleFileChange is still at an await.  *)
(***************************************************************************)
C36_KeyMatchesContent ==
    [][HistoryWrite =>
          LET r == Get(store', submit.currentFileHash)[1]
          IN  /\ r.fileName = submit.file[1].name
              /\ r.transcript = TranscriptOf(submit.file[1])
              /\ r.fileHash = computeFileHash(submit.file[1])]_vars

(***************************************************************************)
(* C37: the offered cache entry belongs to the selected file.  Whenever    *)
(* the reuse dialog is rendered, a file is selected and the fileHash of    *)
(* the cached entry is the fingerprint of that file.                       *)
(***************************************************************************)
C37_DialogOfSelectedFile ==
    DialogShown =>
        /\ app.file # <<>>
        /\ app.cachedEntry[1].fileHash = computeFileHash(app.file[1])

(***************************************************************************)
(* C38: every successful processing run is persisted.  When the            *)
(* summarization step of a handleSubmit whose transcription succeeded      *)
(* returns, and no run of handleFileChange has failed, the history block   *)
(* follows.                                                                *)
(***************************************************************************)
\* the request to /meetings/summarize returns
SummarizeReturns ==
    /\ submit.pc = "summarize"
    /\ submit' # submit

C38_RunIsPersisted ==
    [][(SummarizeReturns /\ decision # "failed") => submit'.pc = "history"]_vars

(***************************************************************************)
(* C39: an append does not lose a legacy summary.  When addSummaryVersion  *)
(* has put a record that it read in legacy shape (a summary and no         *)
(* summaries), getHistoryEntry returns the entry with the legacy summary   *)
(* as the first element of summaries, the new revision as the second, and  *)
(* without the field `summary`.                                            *)
(***************************************************************************)
\* the record the append has read is in legacy shape
ReadLegacy(t) ==
    /\ call[t].entry # <<>>
    /\ call[t].entry[1].summaries.kind = "undefined"
    /\ call[t].entry[1].summary \in Summaries

C39_AppendKeepsLegacySummary ==
    [][\A t \in Tabs :
          (AppendStep(t) /\ ReadLegacy(t)) =>
              LET after == LookupResult(store', call[t].fileHash, now)[1]
              IN  /\ after.summary = "undefined"
                  /\ Len(ItemsOf(after)) = 2
                  /\ ItemsOf(after)[1].summary = call[t].entry[1].summary
                  /\ ItemsOf(after)[2] = call[t].summaryVersion]_vars

(***************************************************************************)
(* C40: reads do not write.  As stated: while a call of getHistoryEntry,   *)
(* getAllHistory or getHistoryCount is in flight, the stored records do    *)
(* not change.                                                             *)
(***************************************************************************)
ReadOps == {"getHistoryEntry", "getAllHistory", "getHistoryCount"}

C40_ReadsDoNotWrite ==
    [][\A t \in Tabs : call[t].op \in ReadOps => store' = store]_vars

(***************************************************************************)
(* C40, amended: outside the upgrade that openDatabase runs on a database  *)
(* behind DB_VERSION, a call of getHistoryEntry, getAllHistory or          *)
(* getHistoryCount leaves the stored records unchanged, a record in legacy *)
(* shape included; the upgrade of the first open, of a read as of any      *)
(* other operation, rewrites the legacy records.                           *)
(***************************************************************************)
C40_ReadsDoNotWriteAtVersion ==
    [][\A t \in Tabs :
          (call[t].op \in ReadOps /\ pc[t] # "openDatabase_upgrade") => store' = store]_vars

\* getHistoryEntry has returned the normalized copy of a record that is
\* still stored in legacy shape
C40_Witness ==
    /\ pc["tabA"] = "settled"
    /\ ret["tabA"].op = "getHistoryEntry"
    /\ ret["tabA"].entry # <<>>
    /\ ret["tabA"].entry[1].summaries.kind = "array"
    /\ ret["tabA"].entry[1].summary = "undefined"
    /\ LET stored == Get(store, ret["tabA"].entry[1].fileHash)
       IN  /\ stored # <<>>
           /\ stored[1].summaries.kind = "undefined"
           /\ stored[1].summary \in Summaries

=============================================================================
